---- MODULE Spec2Model ----
(***************************************************************************)
(* Expense normalisation and shared-cost allocation of project-raseed:     *)
(* the backend service's conversion of a raw AI parse into an Expense      *)
(* (services/backendService.ts, held in src/run-locally.sh), the App       *)
(* component's expense / shared-space state (src/App.tsx), the upload      *)
(* form (src/components/UploadReceipt.tsx) and the Dashboard's participant *)
(* totals (src/unnamed/part_002).                                          *)
(*                                                                         *)
(* JavaScript strings are sequences of one-character strings, so that      *)
(* toLowerCase, trim, includes and the vendor regular expressions are      *)
(* computed and not assumed.  An optional value (a field that may be       *)
(* undefined) is a sequence of length 0 or 1.                              *)
(***************************************************************************)
EXTENDS Integers, Sequences, FiniteSets, TLC

\* ------------------------------------------------------------------------
\* Optional values, small helpers
\* ------------------------------------------------------------------------
None == <<>>
Some(x) == <<x>>
IsSome(m) == Len(m) > 0
Val(m) == m[1]

Min(S) == CHOOSE x \in S : \A y \in S : x <= y
Max(S) == CHOOSE x \in S : \A y \in S : x >= y
Range(s) == {s[i] : i \in 1..Len(s)}

RECURSIVE SeqsUpTo(_, _)
\* all sequences over S of length 0..n
SeqsUpTo(S, n) ==
  IF n = 0 THEN {<<>>}
  ELSE LET shorter == SeqsUpTo(S, n - 1)
       IN shorter \cup {Append(s, x) : s \in {t \in shorter : Len(t) = n - 1}, x \in S}

\* ------------------------------------------------------------------------
\* Strings
\* ------------------------------------------------------------------------
LowerAlphabet ==
  <<"a","b","c","d","e","f","g","h","i","j","k","l","m",
    "n","o","p","q","r","s","t","u","v","w","x","y","z">>
UpperAlphabet ==
  <<"A","B","C","D","E","F","G","H","I","J","K","L","M",
    "N","O","P","Q","R","S","T","U","V","W","X","Y","Z">>
Digits == {"0","1","2","3","4","5","6","7","8","9"}

LowerSet == {LowerAlphabet[i] : i \in 1..26}
UpperSet == {UpperAlphabet[i] : i \in 1..26}
LowerOf == [c \in UpperSet |-> LowerAlphabet[CHOOSE i \in 1..26 : UpperAlphabet[i] = c]]
UpperOf == [c \in LowerSet |-> UpperAlphabet[CHOOSE i \in 1..26 : LowerAlphabet[i] = c]]

IsLower(c) == c \in LowerSet
IsUpper(c) == c \in UpperSet
IsLetter(c) == IsLower(c) \/ IsUpper(c)
IsSpace(c) == c = " "
\* \w of a regular expression
IsWordCh(c) == IsLetter(c) \/ c \in Digits \/ c = "_"

ToLowerCh(c) == IF IsUpper(c) THEN LowerOf[c] ELSE c
ToUpperCh(c) == IF IsLower(c) THEN UpperOf[c] ELSE c

\* String.prototype.toLowerCase
toLowerCase(s) == [i \in 1..Len(s) |-> ToLowerCh(s[i])]

\* String.prototype.trim
trim(s) ==
  LET keep == {i \in 1..Len(s) : ~IsSpace(s[i])}
  IN IF keep = {} THEN <<>> ELSE SubSeq(s, Min(keep), Max(keep))

\* the string has word w at index i
StartsWith(s, i, w) ==
  /\ i >= 1
  /\ i + Len(w) - 1 <= Len(s)
  /\ \A k \in 1..Len(w) : s[i + k - 1] = w[k]

\* String.prototype.includes
includes(s, w) == \E i \in 1..(Len(s) + 1) : StartsWith(s, i, w)

\* Array.prototype.join(' ')
RECURSIVE JoinSpace(_)
JoinSpace(ss) ==
  IF ss = <<>> THEN <<>>
  ELSE IF Len(ss) = 1 THEN ss[1]
       ELSE ss[1] \o <<" ">> \o JoinSpace(Tail(ss))

\* The words the code and the fixtures use.
You == <<"Y","o","u">>
sMe == <<"m","e">>
sMyself == <<"m","y","s","e","l","f">>
sI == <<"i">>
Priya == <<"P","r","i","y","a">>
Rohit == <<"R","o","h","i","t">>

\* ------------------------------------------------------------------------
\* BackendApiService.capitalizeWords, extractVendorName, categorizeExpense
\* ------------------------------------------------------------------------
\* str.replace(/\b\w+/g, w => w.charAt(0).toUpperCase() + w.slice(1).toLowerCase())
capitalizeWords(str) ==
  [i \in 1..Len(str) |->
     IF ~IsWordCh(str[i]) THEN str[i]
     ELSE IF i = 1 \/ ~IsWordCh(str[i - 1]) THEN ToUpperCh(str[i])
          ELSE ToLowerCh(str[i])]

\* length of the run of white space that starts at index i
SpaceRun(t, i) ==
  LET others == {k \in i..Len(t) : ~IsSpace(t[k])}
  IN IF others = {} THEN Len(t) + 1 - i ELSE Min(others) - i

wWith == <<"w","i","t","h">>
wFor == <<"f","o","r">>
wYesterday == <<"y","e","s","t","e","r","d","a","y">>
wToday == <<"t","o","d","a","y">>
wAt == <<"a","t">>
wWent == <<"w","e","n","t">>
wTo == <<"t","o">>
wFrom == <<"f","r","o","m">>
wBought == <<"b","o","u","g","h","t">>

\* (?:\s+with|\s+for|\s+yesterday|\s+today|\.|$) matches at index i of the
\* text t, whose lower-case form is low (the /i flag)
TerminatorAt(t, low, i) ==
  \/ i = Len(t) + 1
  \/ t[i] = "."
  \/ /\ IsSpace(t[i])
     /\ \E w \in {wWith, wFor, wYesterday, wToday} : StartsWith(low, i + SpaceRun(t, i), w)

\* ends e of a capture [A-Za-z\s]+? that starts at c and is followed by a terminator
CaptureEnds(t, low, c) ==
  LET others == {k \in c..Len(t) : ~(IsLetter(t[k]) \/ IsSpace(t[k]))}
      last == IF others = {} THEN Len(t) ELSE Min(others) - 1
  IN {e \in c..last : TerminatorAt(t, low, e + 1)}

\* \s+([A-Za-z\s]+?)(?:...) matched from index p: \s+ is greedy, the capture
\* lazy; the capture of the first alternative the backtracking search finds
TailMatch(t, low, p) ==
  LET ws == {w \in 1..SpaceRun(t, p) : CaptureEnds(t, low, p + w) # {}}
  IN IF ws = {} THEN None
     ELSE Some(SubSeq(t, p + Max(ws), Min(CaptureEnds(t, low, p + Max(ws)))))

\* <<start, index after the trigger>> for each place the trigger of pattern n
\* matches: at, went\s+to, from, bought.*?from
TriggerEnds(t, low, n) ==
  CASE n = 1 -> {<<s, s + 2>> : s \in {x \in 1..Len(t) : StartsWith(low, x, wAt)}}
    [] n = 2 -> {<<s, s + 4 + SpaceRun(t, s + 4) + 2>> :
                   s \in {x \in 1..Len(t) :
                            /\ StartsWith(low, x, wWent)
                            /\ SpaceRun(t, x + 4) >= 1
                            /\ StartsWith(low, x + 4 + SpaceRun(t, x + 4), wTo)}}
    [] n = 3 -> {<<s, s + 4>> : s \in {x \in 1..Len(t) : StartsWith(low, x, wFrom)}}
    [] n = 4 -> {pr \in {<<s, q + 4>> :
                            s \in {x \in 1..Len(t) : StartsWith(low, x, wBought)},
                            q \in {y \in 1..Len(t) : StartsWith(low, y, wFrom)}} :
                   pr[2] >= pr[1] + 10}

\* the leftmost start wins, and for pattern 4 the lazy .*? takes the nearest from
FirstHit(t, low, hits) ==
  IF hits = {} THEN None
  ELSE LET s == Min({pr[1] : pr \in hits})
       IN TailMatch(t, low, Min({pr[2] : pr \in {h \in hits : h[1] = s}}))

\* pattern n matched against the text t, whose lower-case form is low
MatchPattern(t, low, n) ==
  FirstHit(t, low, {pr \in TriggerEnds(t, low, n) : IsSome(TailMatch(t, low, pr[2]))})

\* originalText.match(vendorPatterns[n])[1], or None when there is no match
PatternCapture(t, n) == MatchPattern(t, toLowerCase(t), n)

VendorPatterns == 1..4

\* the test of lines 325-327 on a capture
ValidVendor(capture) ==
  /\ IsSome(capture)
  /\ Len(Val(capture)) > 0
  /\ Len(trim(Val(capture))) > 2
  /\ Len(trim(Val(capture))) < 50

\* the reduce with >= for >: the last of the items of highest amount
RECURSIVE ReduceMaxLastTie(_, _)
ReduceMaxLastTie(items, max) ==
  IF items = <<>> THEN max
  ELSE ReduceMaxLastTie(Tail(items),
                        IF Head(items).amount >= max.amount THEN Head(items) ELSE max)

\* lineItems.reduce((max, item) => item.amount > max.amount ? item : max, lineItems[0])
RECURSIVE ReduceMax(_, _)
ReduceMax(items, max) ==
  IF items = <<>> THEN max
  ELSE ReduceMax(Tail(items), IF Head(items).amount > max.amount THEN Head(items) ELSE max)

sExpense == <<"E","x","p","e","n","s","e">>

\* the fallback without the test lineItems.length > 0: lineItems[0] of an empty
\* list is undefined and reading its description throws
VendorFallbackUnguarded(lineItems) ==
  IF ~IsSome(lineItems) \/ Len(Val(lineItems)) = 0 THEN [ok |-> FALSE, val |-> <<>>]
  ELSE IF Len(ReduceMax(Val(lineItems), Val(lineItems)[1]).description) < 30
       THEN [ok |-> TRUE,
             val |-> capitalizeWords(ReduceMax(Val(lineItems), Val(lineItems)[1]).description)]
       ELSE [ok |-> TRUE, val |-> sExpense]

\* lines 333-344: the fallback to the primary line item; lineItems is None when
\* the raw parse has no line_items, and lineItems.length then throws
VendorFallback(lineItems) ==
  IF ~IsSome(lineItems) THEN [ok |-> FALSE, val |-> <<>>]
  ELSE IF Len(Val(lineItems)) > 0
          /\ Len(ReduceMax(Val(lineItems), Val(lineItems)[1]).description) < 30
       THEN [ok |-> TRUE,
             val |-> capitalizeWords(ReduceMax(Val(lineItems), Val(lineItems)[1]).description)]
       ELSE [ok |-> TRUE, val |-> sExpense]

\* the loop taking the last pattern with a valid capture instead of the first
VendorFromLastCapture(captures, lineItems) ==
  IF \E n \in VendorPatterns : ValidVendor(captures[n])
  THEN [ok |-> TRUE,
        val |-> capitalizeWords(
                  trim(Val(captures[Max({n \in VendorPatterns : ValidVendor(captures[n])})])))]
  ELSE VendorFallback(lineItems)

\* the loop of lines 323-331 over the captures of the four patterns
VendorFromCaptures(captures, lineItems) ==
  IF \E n \in VendorPatterns : ValidVendor(captures[n])
  THEN [ok |-> TRUE,
        val |-> capitalizeWords(
                  trim(Val(captures[Min({n \in VendorPatterns : ValidVendor(captures[n])})])))]
  ELSE VendorFallback(lineItems)

\* extractVendorName(originalText, lineItems)
extractVendorName(originalText, lineItems) ==
  VendorFromCaptures([n \in VendorPatterns |-> PatternCapture(originalText, n)], lineItems)

kFood == <<"f","o","o","d">>
kRestaurant == <<"r","e","s","t","a","u","r","a","n","t">>
kCafe == <<"c","a","f","e">>
kGrocery == <<"g","r","o","c","e","r","y">>
kSupermarket == <<"s","u","p","e","r","m","a","r","k","e","t">>
kFuel == <<"f","u","e","l">>
kGas == <<"g","a","s">>
kPetrol == <<"p","e","t","r","o","l">>
kElectronics == <<"e","l","e","c","t","r","o","n","i","c","s">>
kPhone == <<"p","h","o","n","e">>
kLaptop == <<"l","a","p","t","o","p">>
kClothes == <<"c","l","o","t","h","e","s">>
kShopping == <<"s","h","o","p","p","i","n","g">>
kUtility == <<"u","t","i","l","i","t","y">>
kElectricity == <<"e","l","e","c","t","r","i","c","i","t","y">>
kWater == <<"w","a","t","e","r">>

\* the if-chain over the joined descriptions with every space removed
categorizeUnseparated(lineItems) ==
  LET descriptions ==
        SelectSeq(JoinSpace([i \in 1..Len(lineItems) |->
                               SelectSeq(toLowerCase(lineItems[i].description),
                                         LAMBDA c : c # " ")]),
                  LAMBDA c : c # " ")
      has(k) == includes(descriptions, k)
  IN IF has(kFood) \/ has(kRestaurant) \/ has(kCafe) THEN "Dining"
     ELSE IF has(kGrocery) \/ has(kSupermarket) THEN "Groceries"
     ELSE IF has(kFuel) \/ has(kGas) \/ has(kPetrol) THEN "Transport"
     ELSE IF has(kElectronics) \/ has(kPhone) \/ has(kLaptop) THEN "Electronics"
     ELSE IF has(kClothes) \/ has(kShopping) THEN "Shopping"
     ELSE IF has(kUtility) \/ has(kElectricity) \/ has(kWater) THEN "Utilities"
     ELSE "Other"

\* the if-chain with the test for Groceries ahead of the test for Dining
categorizeGroceriesFirst(lineItems) ==
  LET descriptions ==
        JoinSpace([i \in 1..Len(lineItems) |-> toLowerCase(lineItems[i].description)])
      has(k) == includes(descriptions, k)
  IN IF has(kGrocery) \/ has(kSupermarket) THEN "Groceries"
     ELSE IF has(kFood) \/ has(kRestaurant) \/ has(kCafe) THEN "Dining"
     ELSE IF has(kFuel) \/ has(kGas) \/ has(kPetrol) THEN "Transport"
     ELSE IF has(kElectronics) \/ has(kPhone) \/ has(kLaptop) THEN "Electronics"
     ELSE IF has(kClothes) \/ has(kShopping) THEN "Shopping"
     ELSE IF has(kUtility) \/ has(kElectricity) \/ has(kWater) THEN "Utilities"
     ELSE "Other"

\* categorizeExpense(lineItems): the if-chain of lines 358-377
categorizeExpense(lineItems) ==
  LET descriptions ==
        JoinSpace([i \in 1..Len(lineItems) |-> toLowerCase(lineItems[i].description)])
      has(k) == includes(descriptions, k)
  IN IF has(kFood) \/ has(kRestaurant) \/ has(kCafe) THEN "Dining"
     ELSE IF has(kGrocery) \/ has(kSupermarket) THEN "Groceries"
     ELSE IF has(kFuel) \/ has(kGas) \/ has(kPetrol) THEN "Transport"
     ELSE IF has(kElectronics) \/ has(kPhone) \/ has(kLaptop) THEN "Electronics"
     ELSE IF has(kClothes) \/ has(kShopping) THEN "Shopping"
     ELSE IF has(kUtility) \/ has(kElectricity) \/ has(kWater) THEN "Utilities"
     ELSE "Other"

\* ------------------------------------------------------------------------
\* JavaScript numbers that need not be finite (total_amount)
\* ------------------------------------------------------------------------
Fin(n) == [kind |-> "finite", val |-> n]
NaN == [kind |-> "NaN", val |-> 0]
Infinity == [kind |-> "Infinity", val |-> 0]
\* a missing total_amount
Undefined == [kind |-> "undefined", val |-> 0]
IsFinite(x) == x.kind = "finite"

\* ------------------------------------------------------------------------
\* BackendApiService.convertBackendExpenseToFrontend, parseExpenseFromText
\*
\* parsed_data is [participants, clean_participants, is_shared, line_items,
\* total_amount]; expense_type, processing_time and status are never read.
\* A line item is [description, amount, category, splits]; allocation_text is
\* never read.
\* ------------------------------------------------------------------------
cMe == <<"M","e">>
cI == <<"I">>
sEmpty == <<>>

\* the filter with the comparisons made case-sensitively
KeepParticipantExactCase(p) ==
  /\ Len(p) > 0
  /\ p # sMe
  /\ p # sMyself
  /\ p # sI

\* p && p.toLowerCase() !== 'me' && p.toLowerCase() !== 'myself' && p.toLowerCase() !== 'i'
KeepParticipant(p) ==
  /\ Len(p) > 0
  /\ toLowerCase(p) # sMe
  /\ toLowerCase(p) # sMyself
  /\ toLowerCase(p) # sI

\* parsedData.clean_participants || parsedData.participants.filter(...)
CleanParticipants(parsedData) ==
  IF IsSome(parsedData.clean_participants) THEN Val(parsedData.clean_participants)
  ELSE SelectSeq(parsedData.participants, KeepParticipant)

\* parsedData.is_shared !== undefined ? parsedData.is_shared : cleanParticipants.length > 0
IsSharedOf(parsedData) ==
  IF IsSome(parsedData.is_shared) THEN Val(parsedData.is_shared)
  ELSE Len(CleanParticipants(parsedData)) > 0

\* parsedData.line_items.map(item => ({description, price: item.amount, category}))
ConvertLineItems(line_items) ==
  [i \in 1..Len(line_items) |->
     [description |-> line_items[i].description,
      price |-> line_items[i].amount,
      category |-> line_items[i].category]]

\* created_at.split('T')[0]
DatePart(created_at) == created_at.date

Threw(msg) == [ok |-> FALSE, val |-> msg]
Returned(v) == [ok |-> TRUE, val |-> v]

\* lines 276-308: the Expense built from the values computed in lines 262-274,
\* or the TypeError that reading .length / .map of a missing line_items throws
BuildExpense(backendExpense, parsedData, cleanParticipants, isShared, vendorName) ==
  IF ~vendorName.ok \/ ~IsSome(parsedData.line_items)
  THEN Threw("TypeError")
  ELSE Returned(
    [id |-> <<"backend-", backendExpense.id>>,
     vendorName |-> vendorName.val,
     transactionDate |-> DatePart(backendExpense.created_at),
     totalAmount |-> parsedData.total_amount,
     category |-> categorizeExpense(Val(parsedData.line_items)),
     lineItems |-> ConvertLineItems(Val(parsedData.line_items)),
     type |-> IF isShared THEN "shared" ELSE "personal",
     backendData |-> Some([line_items |-> Val(parsedData.line_items),
                           participants |-> parsedData.participants,
                           clean_participants |-> cleanParticipants]),
     members |-> IF isShared THEN Some(<<You>> \o cleanParticipants) ELSE None,
     sharedDetails |->
       IF isShared
       THEN Some([members |-> <<You>> \o cleanParticipants, paidBy |-> You])
       ELSE None,
     sharedSpaceId |-> None])

RECURSIVE SumOfItemAmounts(_)
SumOfItemAmounts(line_items) ==
  IF line_items = <<>> THEN 0
  ELSE Head(line_items).amount + SumOfItemAmounts(Tail(line_items))

\* the conversion with the total taken from the line items instead
convertWithSummedTotal(backendExpense) ==
  BuildExpense(backendExpense,
               [backendExpense.parsed_data EXCEPT
                  !.total_amount =
                    IF IsSome(backendExpense.parsed_data.line_items)
                    THEN Fin(SumOfItemAmounts(Val(backendExpense.parsed_data.line_items)))
                    ELSE @],
               CleanParticipants(backendExpense.parsed_data),
               IsSharedOf(backendExpense.parsed_data),
               extractVendorName(backendExpense.original_text,
                                 backendExpense.parsed_data.line_items))

convertBackendExpenseToFrontend(backendExpense) ==
  BuildExpense(backendExpense,
               backendExpense.parsed_data,
               CleanParticipants(backendExpense.parsed_data),
               IsSharedOf(backendExpense.parsed_data),
               extractVendorName(backendExpense.original_text,
                                 backendExpense.parsed_data.line_items))

\* the mock BackendExpense that parseExpenseFromText builds from the response
\* of POST /parse-expense (lines 392-414)
MockBackendExpense(text, response, now) ==
  LET clean == CleanParticipants(response)
  IN [id |-> response.document_id,
      original_text |-> text,
      parsed_data |->
        [participants |-> response.participants,
         clean_participants |-> Some(clean),
         \* response.is_shared || clean.length > 0
         is_shared |-> Some((IsSome(response.is_shared) /\ Val(response.is_shared))
                            \/ Len(clean) > 0),
         line_items |-> response.line_items,
         total_amount |-> response.total_amount],
      created_at |-> now]

parseExpenseFromText(text, response, now) ==
  convertBackendExpenseToFrontend(MockBackendExpense(text, response, now))

\* ------------------------------------------------------------------------
\* App.tsx: shared spaces
\* ------------------------------------------------------------------------
sGroup == <<" ","G","r","o","u","p">>
sBill == <<" ","B","i","l","l">>

\* crypto.randomUUID(): an id no space or expense holds
FreshUuid(used) == Min((1..(Cardinality(used) + 1)) \ used)

\* space.members.length === expense.members.length &&
\* space.members.every(member => expense.members.includes(member))
SpaceMatches(space, expense) ==
  /\ Len(space.members) = Len(Val(expense.members))
  /\ \A i \in 1..Len(space.members) :
       \E j \in 1..Len(Val(expense.members)) : Val(expense.members)[j] = space.members[i]

\* the forEach of loadExpenses (lines 43-59) over the expenses still to visit
RECURSIVE GroupSharedSpaces(_, _, _)
GroupSharedSpaces(backendExpenses, newSharedSpaces, used) ==
  IF backendExpenses = <<>> THEN newSharedSpaces
  ELSE LET expense == Head(backendExpenses)
           existingSpace ==
             {i \in 1..Len(newSharedSpaces) : SpaceMatches(newSharedSpaces[i], expense)}
           id == IF IsSome(expense.sharedSpaceId) THEN Val(expense.sharedSpaceId)
                 ELSE FreshUuid(used)
       IN IF expense.type = "shared" /\ IsSome(expense.members) /\ existingSpace = {}
          THEN GroupSharedSpaces(Tail(backendExpenses),
                                 Append(newSharedSpaces,
                                        [id |-> id,
                                         name |-> expense.vendorName \o sGroup,
                                         members |-> Val(expense.members)]),
                                 used \cup {id})
          ELSE GroupSharedSpaces(Tail(backendExpenses), newSharedSpaces, used)

\* handleReceiptParsed, lines 85-104: whether the parsed expense is shared
ReceiptIsShared(parsedData) ==
  IsSome(parsedData.members) /\ Len(Val(parsedData.members)) > 1

\* handleReceiptParsed, lines 88-92: the space made for a shared expense
ReceiptSharedSpace(parsedData, uuid) ==
  [id |-> uuid,
   name |-> parsedData.vendorName \o sBill,
   members |-> Val(parsedData.members)]

\* handleReceiptParsed renaming a shared expense after its space
ReceiptExpenseRenamed(parsedData, uuid) ==
  IF ReceiptIsShared(parsedData)
  THEN [parsedData EXCEPT
          !.type = "shared",
          !.vendorName = @ \o sBill,
          !.sharedSpaceId = Some(uuid),
          !.sharedDetails =
            IF IsSome(@) THEN @
            ELSE Some([members |-> Val(parsedData.members), paidBy |-> You])]
  ELSE [parsedData EXCEPT !.type = "personal"]

\* handleReceiptParsed with an else branch that sets no type
ReceiptExpenseTypeOmitted(parsedData, uuid) ==
  IF ReceiptIsShared(parsedData)
  THEN [parsedData EXCEPT
          !.type = "shared",
          !.sharedSpaceId = Some(uuid),
          !.sharedDetails =
            IF IsSome(@) THEN @
            ELSE Some([members |-> Val(parsedData.members), paidBy |-> You])]
  ELSE [parsedData EXCEPT !.type = "undefined"]

\* handleReceiptParsed, lines 82-104: the expense as it is appended
ReceiptExpense(parsedData, uuid) ==
  IF ReceiptIsShared(parsedData)
  THEN [parsedData EXCEPT
          !.type = "shared",
          !.sharedSpaceId = Some(uuid),
          !.sharedDetails =
            IF IsSome(@) THEN @
            ELSE Some([members |-> Val(parsedData.members), paidBy |-> You])]
  ELSE [parsedData EXCEPT !.type = "personal"]

\* ------------------------------------------------------------------------
\* Dashboard (part_002): participant totals and percentages
\* ------------------------------------------------------------------------
\* getExpenseWithSplits(expense): backendData.line_items when present, else
\* the expense's own line items with no splits
getExpenseWithSplits(expense) ==
  IF IsSome(expense.backendData) THEN Val(expense.backendData).line_items
  ELSE [i \in 1..Len(expense.lineItems) |->
          [description |-> expense.lineItems[i].description,
           amount |-> expense.lineItems[i].price,
           category |-> expense.lineItems[i].category,
           splits |-> Some(<<>>)]]

\* split.participant === 'me' ? 'You' : split.participant
SplitKey(participant) == IF participant = sMe THEN You ELSE participant

\* the visit with an equal-split fallback: a line item without splits is
\* charged to 'You' in full
RECURSIVE VisitedSplitsWithFallback(_)
VisitedSplitsWithFallback(lineItemsWithSplits) ==
  IF lineItemsWithSplits = <<>> THEN <<>>
  ELSE (IF IsSome(Head(lineItemsWithSplits).splits)
           /\ Len(Val(Head(lineItemsWithSplits).splits)) > 0
        THEN Val(Head(lineItemsWithSplits).splits)
        ELSE <<[participant |-> You, amount |-> Head(lineItemsWithSplits).amount]>>)
       \o VisitedSplitsWithFallback(Tail(lineItemsWithSplits))

\* the splits the forEach of calculateParticipantTotals visits, in order
RECURSIVE VisitedSplits(_)
VisitedSplits(lineItemsWithSplits) ==
  IF lineItemsWithSplits = <<>> THEN <<>>
  ELSE (IF IsSome(Head(lineItemsWithSplits).splits)
        THEN Val(Head(lineItemsWithSplits).splits) ELSE <<>>)
       \o VisitedSplits(Tail(lineItemsWithSplits))

RECURSIVE SumAmounts(_)
SumAmounts(splits) ==
  IF splits = <<>> THEN 0 ELSE Head(splits).amount + SumAmounts(Tail(splits))

\* calculateParticipantTotals: Record<string, number>
calculateParticipantTotals(lineItemsWithSplits) ==
  LET visited == VisitedSplits(lineItemsWithSplits)
      keys == {SplitKey(visited[i].participant) : i \in 1..Len(visited)}
      isFor(k, split) == SplitKey(split.participant) = k
  IN [k \in keys |-> SumAmounts(SelectSeq(visited, LAMBDA sp : isFor(k, sp)))]

\* ((part / whole) * 100).toFixed(1), in tenths of a percent; whole may be any
\* JavaScript number, part is a finite amount
PercentageOf(part, whole) ==
  IF whole.kind = "Infinity" THEN Fin(0)
  ELSE IF whole.kind # "finite" THEN NaN
  ELSE IF whole.val = 0 THEN (IF part = 0 THEN NaN ELSE Infinity)
  ELSE Fin((2000 * part + whole.val) \div (2 * whole.val))

\* ------------------------------------------------------------------------
\* Bounds and input sets
\* ------------------------------------------------------------------------
\* expenses the backend database holds at most
MaxExpenses == 2
\* length of a raw participants list
MaxParticipants == 2
\* line items of a rendered expense
MaxItems == 2
MaxInsights == 2
MaxRequests == 2

tBigBazaar == <<"a","t"," ","B","i","g"," ","B","a","z","a","a","r">>
tLunch == <<"l","u","n","c","h">>
dRice == <<"r","i","c","e">>
dCafe == <<"C","a","f","e"," ","b","i","l","l">>

ItemRice == [description |-> dRice, amount |-> 1000, category |-> None, splits |-> Some(<<>>)]
ItemCafe == [description |-> dCafe, amount |-> 1500, category |-> Some("Dining"), splits |-> None]

\* what the text area can hold
BillTexts == {<<>>, <<" ">>, tBigBazaar}

IsSharedFlags == {None, Some(TRUE), Some(FALSE)}

\* the participant lists of the responses the application is run against
AppParticipantLists ==
  {<<>>, <<Priya>>, <<Priya, Rohit>>, <<Rohit, Priya>>, <<Priya, Priya>>, <<You, Priya>>}

\* a response of POST /parse-expense without line_items
MalformedResponse ==
  [participants |-> <<>>, clean_participants |-> Some(<<>>), is_shared |-> Some(FALSE),
   line_items |-> None, total_amount |-> Fin(1000)]

\* the responses of POST /parse-expense the application is run against
AppResponses ==
  {[participants |-> l, clean_participants |-> Some(l), is_shared |-> f,
    line_items |-> Some(<<ItemRice>>), total_amount |-> Fin(1000)] :
     l \in AppParticipantLists, f \in IsSharedFlags}
  \cup {MalformedResponse}

\* new Date().toISOString() and the server's created_at
Now == [date |-> "2025-07-01", time |-> "10:00:00"]

\* ------------------------------------------------------------------------
\* The budget: numbers as text. A finite number is held in tenths, so the
\* texts have at most one digit after the point.
\* ------------------------------------------------------------------------
DefaultBudget == 50000

DecimalDigits == <<"0","1","2","3","4","5","6","7","8","9">>
IsDigit(c) == \E d \in 1..Len(DecimalDigits) : DecimalDigits[d] = c
DigitValue(c) == (CHOOSE d \in 1..Len(DecimalDigits) : DecimalDigits[d] = c) - 1

\* the place after the digits that start at place i
RECURSIVE DigitsEnd(_, _)
DigitsEnd(s, i) ==
  IF i <= Len(s) /\ IsDigit(s[i]) THEN DigitsEnd(s, i + 1) ELSE i

\* the value of the digits s[i..j-1]
RECURSIVE DigitsValue(_, _, _)
DigitsValue(s, i, j) ==
  IF j <= i THEN 0 ELSE DigitsValue(s, i, j - 1) * 10 + DigitValue(s[j - 1])

\* the place after the white space that starts at place i
RECURSIVE SpaceEnd(_, _)
SpaceEnd(s, i) ==
  IF i <= Len(s) /\ s[i] = " " THEN SpaceEnd(s, i + 1) ELSE i

sInfinity == <<"I","n","f","i","n","i","t","y">>
NegativeInfinity == [kind |-> "-Infinity", val |-> 0]
sNaN == <<"N","a","N">>

\* parseFloat(string): white space, a sign, then 'Infinity' or the longest
\* decimal literal (digits, a point, digits), and NaN when there is none
parseFloat(string) ==
  LET start == SpaceEnd(string, 1)
      signed == start <= Len(string) /\ string[start] \in {"-", "+"}
      negative == signed /\ string[start] = "-"
      first == IF signed THEN start + 1 ELSE start
      intEnd == DigitsEnd(string, first)
      pointed == intEnd <= Len(string) /\ string[intEnd] = "."
      fracEnd == IF pointed THEN DigitsEnd(string, intEnd + 1) ELSE intEnd
      tenths == DigitsValue(string, first, intEnd) * 10
                + (IF pointed /\ fracEnd > intEnd + 1
                   THEN DigitValue(string[intEnd + 1]) ELSE 0)
  IN IF StartsWith(string, first, sInfinity)
     THEN IF negative THEN NegativeInfinity ELSE Infinity
     ELSE IF intEnd = first /\ ~(pointed /\ fracEnd > intEnd + 1) THEN NaN
     ELSE Fin(IF negative THEN 0 - tenths ELSE tenths)

\* the decimal digits of a natural number
RECURSIVE NatToString(_)
NatToString(n) ==
  IF n < 10 THEN <<DecimalDigits[n + 1]>>
  ELSE NatToString(n \div 10) \o <<DecimalDigits[(n % 10) + 1]>>

\* Number.prototype.toString()
toString(number) ==
  IF number.kind = "NaN" THEN sNaN
  ELSE IF number.kind = "-Infinity" THEN <<"-">> \o sInfinity
  ELSE IF number.kind # "finite" THEN sInfinity
  ELSE LET magnitude == IF number.val < 0 THEN 0 - number.val ELSE number.val
       IN (IF number.val < 0 THEN <<"-">> ELSE <<>>)
          \o NatToString(magnitude \div 10)
          \o (IF magnitude % 10 = 0 THEN <<>>
              ELSE <<".", DecimalDigits[(magnitude % 10) + 1]>>)

\* the value of an <input type="number"> after typing: the text when it is
\* a valid floating-point number (one without an exponent here), else the
\* empty string
NumberInputValue(typed) ==
  LET first == IF typed # <<>> /\ typed[1] = "-" THEN 2 ELSE 1
      intEnd == DigitsEnd(typed, first)
      pointed == intEnd <= Len(typed) /\ typed[intEnd] = "."
      fracEnd == IF pointed THEN DigitsEnd(typed, intEnd + 1) ELSE intEnd
  IN IF /\ intEnd > first \/ pointed
        /\ fracEnd = Len(typed) + 1
        /\ pointed => fracEnd > intEnd + 1
     THEN typed
     ELSE <<>>

\* ------------------------------------------------------------------------
\* State
\* ------------------------------------------------------------------------
VARIABLES
  backendDb,         \* the backend's stored expenses (GET /expenses)
  currentView, sharedSpaces, expenses, isLoading, error, isInitialLoading,  \* App
  inputType, imagePreview, billText,                                        \* UploadReceipt
  loadPc,            \* loadExpenses: "idle", "health" or "expenses" (the await it is at)
  submitPc,          \* handleSubmit: "idle" or "parsing"
  submitText,        \* the text of the request in flight
  cStage, cText, cResponse, cOut,      \* one run of the canonicalizer
  tStage, tExpense, tTotals, tPercent, \* one rendering of a shared expense
  dText, dItems, dVendorName, dCategory, \* one naming and categorizing of a parse
  insights, insightsLoading, isGenerating, showGenerateForm, newQuery,
  insightsError,     \* Insights
  insightsDb,        \* the backend's stored insights (GET /insights)
  insightRequests,   \* generateInsight and deleteInsight requests in flight
  monthlyBudget,     \* App
  savedBudget,       \* localStorage's monthlyBudget item
  isEditingBudget, newBudget,  \* Dashboard
  budgetSaves,       \* the updateBudget requests in flight
  budgetDb           \* the backend's stored budget (POST /budget)

appVars == <<backendDb, currentView, sharedSpaces, expenses, isLoading, error,
             isInitialLoading, inputType, imagePreview, billText, loadPc, submitPc,
             submitText>>
canonVars == <<cStage, cText, cResponse, cOut>>
totalsVars == <<tStage, tExpense, tTotals, tPercent>>
describeVars == <<dText, dItems, dVendorName, dCategory>>
insightsVars == <<insights, insightsLoading, isGenerating, showGenerateForm, newQuery,
                  insightsError, insightsDb, insightRequests>>
budgetVars == <<monthlyBudget, savedBudget, isEditingBudget, newBudget, budgetSaves,
                budgetDb>>
vars == <<appVars, canonVars, totalsVars, describeVars, insightsVars, budgetVars>>

\* useState initial values (App.tsx 12-19, UploadReceipt.tsx 16-18), with the
\* mount effect's loadExpenses() awaiting the health check
AppInit ==
  /\ backendDb = <<>>
  /\ currentView = "dashboard"
  /\ sharedSpaces = <<>>
  /\ expenses = <<>>
  /\ isLoading = FALSE
  /\ error = None
  /\ isInitialLoading = TRUE
  /\ inputType = "text"
  /\ imagePreview = None
  /\ billText = <<>>
  /\ loadPc = "health"
  /\ submitPc = "idle"
  /\ submitText = <<>>

CanonIdle ==
  /\ cStage = "idle"
  /\ cText = <<>>
  /\ cResponse = MalformedResponse
  /\ cOut = None

TotalsIdle ==
  /\ tStage = "idle"
  /\ tExpense = None
  /\ tTotals = <<>>
  /\ tPercent = <<>>

DescribeIdle ==
  /\ dText = <<>>
  /\ dItems = <<>>
  /\ dVendorName = None
  /\ dCategory = None

\* useState initial values of Insights (Insights.tsx 9-14), with the mount
\* effect's loadInsights() awaiting its answer
InsightsInit ==
  /\ insights = <<>>
  /\ insightsLoading = TRUE
  /\ isGenerating = FALSE
  /\ showGenerateForm = FALSE
  /\ newQuery = <<>>
  /\ insightsError = None
  /\ insightsDb = [insights |-> <<>>, issued |-> 0]
  /\ insightRequests = <<>>

\* the budget at the first visit: App.tsx 18, nothing saved, and the
\* useState initial values of Dashboard (part_002 43-44)
BudgetInit ==
  /\ monthlyBudget = Fin(DefaultBudget * 10)
  /\ savedBudget = None
  /\ isEditingBudget = FALSE
  /\ newBudget = toString(Fin(DefaultBudget * 10))
  /\ budgetSaves = {}
  /\ budgetDb = None

Init == AppInit /\ CanonIdle /\ TotalsIdle /\ DescribeIdle /\ InsightsInit /\ BudgetInit

\* ------------------------------------------------------------------------
\* The application: App.tsx, UploadReceipt.tsx and the backend they call
\* ------------------------------------------------------------------------
\* renderView shows UploadReceipt only for the upload view once loading is over
FormRendered == currentView = "upload" /\ ~isInitialLoading

\* an unmounted UploadReceipt loses its state (useState initial values on the next mount)
FormUnmounted ==
  /\ inputType' = "text"
  /\ imagePreview' = None
  /\ billText' = <<>>

\* ids held by a shared space or an expense
UsedUuids ==
  {sharedSpaces[i].id : i \in 1..Len(sharedSpaces)}
  \cup {Val(expenses[i].sharedSpaceId) :
          i \in {j \in 1..Len(expenses) : IsSome(expenses[j].sharedSpaceId)}}

\* the catch and finally blocks of loadExpenses (lines 63-68)
LoadFailed(message) ==
  /\ error' = Some(message)
  /\ isInitialLoading' = FALSE
  /\ loadPc' = "idle"
  /\ UNCHANGED <<backendDb, currentView, sharedSpaces, expenses, isLoading,
                 inputType, imagePreview, billText, submitPc, submitText>>

\* loadExpenses, line 32: the health check answers
HealthCheckOk ==
  /\ loadPc = "health"
  /\ loadPc' = "expenses"
  /\ UNCHANGED <<backendDb, currentView, sharedSpaces, expenses, isLoading, error,
                 isInitialLoading, inputType, imagePreview, billText, submitPc,
                 submitText>>
  /\ UNCHANGED <<canonVars, totalsVars, describeVars, insightsVars, budgetVars>>

\* handleResponse throws on a response that is not ok
HealthCheckFail ==
  /\ loadPc = "health"
  /\ LoadFailed("HTTP 503: health-check")
  /\ UNCHANGED <<canonVars, totalsVars, describeVars, insightsVars, budgetVars>>

\* loadExpenses holding, when a conversion throws, the expenses converted so far
LoadSettledKeepingConverted(converted) ==
  /\ IF \E i \in 1..Len(converted) : ~converted[i].ok
     THEN /\ error' = Some("TypeError")
          /\ expenses' =
               LET done == SelectSeq(converted, LAMBDA c : c.ok)
               IN [i \in 1..Len(done) |-> done[i].val]
          /\ UNCHANGED sharedSpaces
     ELSE /\ expenses' = [i \in 1..Len(converted) |-> converted[i].val]
          /\ sharedSpaces' =
               GroupSharedSpaces([i \in 1..Len(converted) |-> converted[i].val],
                                 <<>>, UsedUuids)
          /\ UNCHANGED error
  /\ isInitialLoading' = FALSE
  /\ loadPc' = "idle"

\* loadExpenses, lines 36-68, with the results of the conversions of line 36
LoadSettled(converted) ==
  /\ IF \E i \in 1..Len(converted) : ~converted[i].ok
     THEN /\ error' = Some("TypeError")
          /\ UNCHANGED <<expenses, sharedSpaces>>
     ELSE /\ expenses' = [i \in 1..Len(converted) |-> converted[i].val]
          /\ sharedSpaces' =
               GroupSharedSpaces([i \in 1..Len(converted) |-> converted[i].val],
                                 <<>>, UsedUuids)
          /\ UNCHANGED error
  /\ isInitialLoading' = FALSE
  /\ loadPc' = "idle"

\* loadExpenses, line 35: GET /expenses answers with the stored expenses
GetExpensesOk ==
  /\ loadPc = "expenses"
  /\ LoadSettled([i \in 1..Len(backendDb) |->
                    convertBackendExpenseToFrontend(backendDb[i])])
  /\ UNCHANGED <<backendDb, currentView, isLoading, inputType, imagePreview,
                 billText, submitPc, submitText>>
  /\ UNCHANGED <<canonVars, totalsVars, describeVars, insightsVars, budgetVars>>

GetExpensesFail ==
  /\ loadPc = "expenses"
  /\ LoadFailed("HTTP 500: expenses")
  /\ UNCHANGED <<canonVars, totalsVars, describeVars, insightsVars, budgetVars>>

\* the Retry button of the error banner (lines 206-216) calls loadExpenses
Retry ==
  /\ IsSome(error)
  /\ loadPc = "idle"
  /\ isInitialLoading' = TRUE
  /\ error' = None
  /\ loadPc' = "health"
  /\ FormUnmounted
  /\ UNCHANGED <<backendDb, currentView, sharedSpaces, expenses, isLoading,
                 submitPc, submitText>>
  /\ UNCHANGED <<canonVars, totalsVars, describeVars, insightsVars, budgetVars>>

\* the Header's items with none of them disabled
navItemsAllEnabled ==
  <<[view |-> "dashboard", disabled |-> FALSE],
    [view |-> "upload", disabled |-> FALSE],
    [view |-> "insights", disabled |-> FALSE],
    [view |-> "chat", disabled |-> FALSE]>>

\* the Header's items (Header.tsx 13-18): the chat item is disabled
navItems ==
  <<[view |-> "dashboard", disabled |-> FALSE],
    [view |-> "upload", disabled |-> FALSE],
    [view |-> "insights", disabled |-> FALSE],
    [view |-> "chat", disabled |-> TRUE]>>

\* the views a click on an item navigates to:
\* onClick={() => !item.disabled && onNavigate(item.view)}
NavigableViews ==
  {navItems[i].view : i \in {j \in 1..Len(navItems) : ~navItems[j].disabled}}

\* handleNavigate (lines 71-74)
Navigate(view) ==
  /\ currentView' = view
  /\ error' = None
  /\ IF view = "upload" /\ currentView = "upload"
     THEN UNCHANGED <<inputType, imagePreview, billText>>
     ELSE FormUnmounted
  /\ UNCHANGED <<backendDb, sharedSpaces, expenses, isLoading, isInitialLoading,
                 loadPc, submitPc, submitText>>
  /\ UNCHANGED <<canonVars, totalsVars, describeVars, insightsVars, budgetVars>>

\* the text area's onChange (disabled while isLoading)
SetBillText(t) ==
  /\ FormRendered
  /\ ~isLoading
  /\ inputType = "text"
  /\ billText' = t
  /\ UNCHANGED <<backendDb, currentView, sharedSpaces, expenses, isLoading, error,
                 isInitialLoading, inputType, imagePreview, loadPc, submitPc,
                 submitText>>
  /\ UNCHANGED <<canonVars, totalsVars, describeVars, insightsVars, budgetVars>>

\* imagePreview || billText.trim() !== ''
hasInput == IsSome(imagePreview) \/ trim(billText) # <<>>

\* handleSubmit up to its await with no setIsLoading(true)
HandleSubmitNotLoading ==
  /\ FormRendered
  /\ hasInput /\ ~isLoading
  /\ IF inputType = "text" /\ trim(billText) # <<>>
     THEN /\ error' = None
          /\ submitPc' = "parsing"
          /\ submitText' = trim(billText)
          /\ UNCHANGED isLoading
     ELSE IF inputType = "image" /\ IsSome(imagePreview)
     THEN /\ error' = Some("Image parsing is not yet implemented.")
          /\ isLoading' = FALSE
          /\ UNCHANGED <<submitPc, submitText>>
     ELSE /\ error' = Some("Please provide expense details to parse.")
          /\ isLoading' = FALSE
          /\ UNCHANGED <<submitPc, submitText>>
  /\ UNCHANGED <<backendDb, currentView, sharedSpaces, expenses, isInitialLoading,
                 inputType, imagePreview, billText, loadPc>>
  /\ UNCHANGED <<canonVars, totalsVars, describeVars, insightsVars, budgetVars>>

\* handleSubmit up to its await (lines 60-81); line 61 returns at once when
\* there is no input or isLoading is set
HandleSubmit ==
  /\ FormRendered
  /\ hasInput /\ ~isLoading
  /\ IF inputType = "text" /\ trim(billText) # <<>>
     THEN /\ isLoading' = TRUE
          /\ error' = None
          /\ submitPc' = "parsing"
          /\ submitText' = trim(billText)
     ELSE IF inputType = "image" /\ IsSome(imagePreview)
     THEN /\ error' = Some("Image parsing is not yet implemented.")
          /\ isLoading' = FALSE
          /\ UNCHANGED <<submitPc, submitText>>
     ELSE /\ error' = Some("Please provide expense details to parse.")
          /\ isLoading' = FALSE
          /\ UNCHANGED <<submitPc, submitText>>
  /\ UNCHANGED <<backendDb, currentView, sharedSpaces, expenses, isInitialLoading,
                 inputType, imagePreview, billText, loadPc>>
  /\ UNCHANGED <<canonVars, totalsVars, describeVars, insightsVars, budgetVars>>

\* the body of POST /parse-expense's answer for a stored parse
ParseExpenseResponse(response, document_id) ==
  [document_id |-> document_id,
   participants |-> response.participants,
   clean_participants |-> response.clean_participants,
   is_shared |-> response.is_shared,
   line_items |-> response.line_items,
   total_amount |-> response.total_amount]

\* the backend stores what it parsed
StoredExpense(text, response, document_id) ==
  [id |-> document_id, original_text |-> text, parsed_data |-> response,
   created_at |-> Now]

\* the settling of a submission with setExpenses putting the new expense first
SubmitSettledPrepending(parsedData, uuid) ==
  /\ IF ~parsedData.ok
     THEN /\ error' = Some(parsedData.val)
          /\ UNCHANGED <<currentView, sharedSpaces, expenses, inputType,
                         imagePreview, billText>>
     ELSE /\ sharedSpaces' =
               IF ReceiptIsShared(parsedData.val)
               THEN Append(sharedSpaces, ReceiptSharedSpace(parsedData.val, uuid))
               ELSE sharedSpaces
          /\ expenses' = <<ReceiptExpense(parsedData.val, uuid)>> \o expenses
          /\ currentView' = "dashboard"
          /\ FormUnmounted
          /\ error' = None
  /\ isLoading' = FALSE
  /\ submitPc' = "idle"

\* the settling of a submission with handleReceiptParsed's setIsLoading(true)
\* as the last write of isLoading
SubmitSettledLoadingLast(parsedData, uuid) ==
  /\ IF ~parsedData.ok
     THEN /\ error' = Some(parsedData.val)
          /\ isLoading' = FALSE
          /\ UNCHANGED <<currentView, sharedSpaces, expenses, inputType,
                         imagePreview, billText>>
     ELSE /\ sharedSpaces' =
               IF ReceiptIsShared(parsedData.val)
               THEN Append(sharedSpaces, ReceiptSharedSpace(parsedData.val, uuid))
               ELSE sharedSpaces
          /\ expenses' = Append(expenses, ReceiptExpense(parsedData.val, uuid))
          /\ currentView' = "dashboard"
          /\ FormUnmounted
          /\ error' = None
          /\ isLoading' = TRUE
  /\ submitPc' = "idle"

\* handleSubmit, lines 83-92, with the parsedData that parseExpenseFromText
\* returned or the error it threw: handleReceiptParsed (App.tsx 76-115, which
\* has no await), then resetForm
SubmitSettled(parsedData, uuid) ==
  /\ IF ~parsedData.ok
     THEN /\ error' = Some(parsedData.val)
          /\ UNCHANGED <<currentView, sharedSpaces, expenses, inputType,
                         imagePreview, billText>>
     ELSE /\ sharedSpaces' =
               IF ReceiptIsShared(parsedData.val)
               THEN Append(sharedSpaces, ReceiptSharedSpace(parsedData.val, uuid))
               ELSE sharedSpaces
          /\ expenses' = Append(expenses, ReceiptExpense(parsedData.val, uuid))
          /\ currentView' = "dashboard"
          /\ FormUnmounted
          /\ error' = None
  /\ isLoading' = FALSE
  /\ submitPc' = "idle"

\* POST /parse-expense answers and parseExpenseFromText converts the answer
ParseExpenseOk(response) ==
  /\ submitPc = "parsing"
  /\ Len(backendDb) < MaxExpenses
  /\ backendDb' = Append(backendDb, StoredExpense(submitText, response, Len(backendDb) + 1))
  /\ SubmitSettled(
       parseExpenseFromText(
         submitText, ParseExpenseResponse(response, Len(backendDb) + 1), Now),
       FreshUuid(UsedUuids))
  /\ UNCHANGED <<isInitialLoading, loadPc, submitText>>
  /\ UNCHANGED <<canonVars, totalsVars, describeVars, insightsVars, budgetVars>>

\* POST /parse-expense fails: the catch and finally of handleSubmit (lines 86-92)
ParseExpenseFail ==
  /\ submitPc = "parsing"
  /\ error' = Some("HTTP 500: parse-expense")
  /\ isLoading' = FALSE
  /\ submitPc' = "idle"
  /\ UNCHANGED <<backendDb, currentView, sharedSpaces, expenses, isInitialLoading,
                 inputType, imagePreview, billText, loadPc, submitText>>
  /\ UNCHANGED <<canonVars, totalsVars, describeVars, insightsVars, budgetVars>>

Next ==
  \/ HealthCheckOk
  \/ HealthCheckFail
  \/ GetExpensesOk
  \/ GetExpensesFail
  \/ Retry
  \/ \E view \in NavigableViews : Navigate(view)
  \/ \E t \in BillTexts : SetBillText(t)
  \/ HandleSubmit
  \/ \E response \in AppResponses : ParseExpenseOk(response)
  \/ ParseExpenseFail

Spec == Init /\ [][Next]_vars

\* the request of POST /parse-expense settles: fetch rejects or resolves
RequestSettles ==
  \/ ParseExpenseFail
  \/ \E response \in AppResponses : ParseExpenseOk(response)

\* the application with every request in flight settling in the end
SpecLive == Init /\ [][Next]_vars /\ WF_vars(RequestSettles)

\* ------------------------------------------------------------------------
\* The budget: Dashboard's editor (part_002), handleSetBudget and the mount
\* effect of App.tsx, and the backend's POST /budget
\* ------------------------------------------------------------------------
\* what is typed into the budget field
BudgetTexts ==
  {<<>>, <<"0">>, <<"-","5">>, <<"0",".","5">>, <<"7","5","0">>, <<"1","2","0","0",".","5">>, <<"a","b","c">>, <<"1","2","a","b","c">>}

\* the pencil button: onClick={() => setIsEditingBudget(true)}
EditBudget ==
  /\ ~isEditingBudget
  /\ isEditingBudget' = TRUE
  /\ UNCHANGED <<monthlyBudget, savedBudget, newBudget, budgetSaves, budgetDb>>
  /\ UNCHANGED <<appVars, canonVars, totalsVars, describeVars, insightsVars>>

\* the budget field's onChange: setNewBudget(e.target.value)
SetNewBudget(typed) ==
  /\ isEditingBudget
  /\ newBudget' = NumberInputValue(typed)
  /\ UNCHANGED <<monthlyBudget, savedBudget, isEditingBudget, budgetSaves, budgetDb>>
  /\ UNCHANGED <<appVars, canonVars, totalsVars, describeVars, insightsVars>>

\* !isNaN(budgetValue) && budgetValue > 0
IsPositiveNumber(budgetValue) ==
  \/ budgetValue.kind = "Infinity"
  \/ budgetValue.kind = "finite" /\ budgetValue.val > 0

\* handleBudgetSave up to its await with the test !isNaN(budgetValue) only
HandleBudgetSaveUnchecked ==
  /\ isEditingBudget
  /\ LET budgetValue == parseFloat(newBudget)
     IN IF budgetValue.kind # "NaN"
        THEN budgetSaves' = budgetSaves \cup {[value |-> budgetValue, live |-> TRUE]}
        ELSE UNCHANGED budgetSaves
  /\ UNCHANGED <<monthlyBudget, savedBudget, isEditingBudget, newBudget, budgetDb>>
  /\ UNCHANGED <<appVars, canonVars, totalsVars, describeVars, insightsVars>>

\* handleBudgetSave up to its await (lines 72-76)
HandleBudgetSave ==
  /\ isEditingBudget
  /\ LET budgetValue == parseFloat(newBudget)
     IN IF IsPositiveNumber(budgetValue)
        THEN budgetSaves' = budgetSaves \cup {[value |-> budgetValue, live |-> TRUE]}
        ELSE UNCHANGED budgetSaves
  /\ UNCHANGED <<monthlyBudget, savedBudget, isEditingBudget, newBudget, budgetDb>>
  /\ UNCHANGED <<appVars, canonVars, totalsVars, describeVars, insightsVars>>

\* onSetBudget(budgetValue) and setIsEditingBudget(false) (lines 77-78 and
\* 81-82), with handleSetBudget (App.tsx 117-121); the Dashboard that made
\* the request may have been unmounted since
BudgetSaveSettled(save) ==
  /\ save \in budgetSaves
  /\ budgetSaves' = budgetSaves \ {save}
  /\ monthlyBudget' = save.value
  /\ savedBudget' = Some(toString(save.value))
  /\ isEditingBudget' = IF save.live THEN FALSE ELSE isEditingBudget
  /\ UNCHANGED newBudget
  /\ UNCHANGED <<appVars, canonVars, totalsVars, describeVars, insightsVars>>

\* POST /budget answers: the backend has stored the budget
UpdateBudgetOk(save) ==
  /\ BudgetSaveSettled(save)
  /\ budgetDb' = Some(save.value)

\* POST /budget fails: the catch of handleBudgetSave (lines 79-83)
UpdateBudgetFail(save) ==
  /\ BudgetSaveSettled(save)
  /\ UNCHANGED budgetDb

\* the Dashboard is left and shown again: useState initial values (lines
\* 43-44), the requests in flight belonging to the Dashboard that is gone
DashboardRemounted ==
  /\ isEditingBudget' = FALSE
  /\ newBudget' = toString(monthlyBudget)
  /\ budgetSaves' = {[save EXCEPT !.live = FALSE] : save \in budgetSaves}
  /\ UNCHANGED <<monthlyBudget, savedBudget, budgetDb>>
  /\ UNCHANGED <<appVars, canonVars, totalsVars, describeVars, insightsVars>>

\* the page is loaded again: useState(50000), then the mount effect
\* (App.tsx 124-129) reads localStorage
PageReloaded ==
  /\ monthlyBudget' =
       IF IsSome(savedBudget) /\ Val(savedBudget) # <<>>
       THEN parseFloat(Val(savedBudget))
       ELSE Fin(DefaultBudget * 10)
  /\ isEditingBudget' = FALSE
  /\ newBudget' = toString(monthlyBudget')
  /\ budgetSaves' = {}
  /\ UNCHANGED <<savedBudget, budgetDb>>
  /\ UNCHANGED <<appVars, canonVars, totalsVars, describeVars, insightsVars>>

BudgetNext ==
  \/ EditBudget
  \/ \E typed \in BudgetTexts : SetNewBudget(typed)
  \/ HandleBudgetSave
  \/ \E save \in budgetSaves : UpdateBudgetOk(save)
  \/ \E save \in budgetSaves : UpdateBudgetFail(save)
  \/ DashboardRemounted
  \/ PageReloaded

SpecBudget == Init /\ [][BudgetNext]_vars

\* ------------------------------------------------------------------------
\* Insights (Insights.tsx) and the backend's insights it calls
\* ------------------------------------------------------------------------
\* two of the predefined queries (lines 17-24)
suggestedQueries ==
  <<<<"t","o","p"," ","c","a","t","e","g","o","r","i","e","s">>,
    <<"p","a","t","t","e","r","n","s">>>>

\* what is typed into the query field
QueryTexts == {<<>>, <<" ">>, <<"w","h","y">>}

\* the queries of the buttons and of the field
Queries == {suggestedQueries[i] : i \in 1..Len(suggestedQueries)} \cup QueryTexts

\* the rest of the state when one field of Insights changes
InsightsFrame(changed) ==
  /\ IF "insights" \in changed THEN TRUE ELSE UNCHANGED insights
  /\ IF "insightsLoading" \in changed THEN TRUE ELSE UNCHANGED insightsLoading
  /\ IF "isGenerating" \in changed THEN TRUE ELSE UNCHANGED isGenerating
  /\ IF "showGenerateForm" \in changed THEN TRUE ELSE UNCHANGED showGenerateForm
  /\ IF "newQuery" \in changed THEN TRUE ELSE UNCHANGED newQuery
  /\ IF "insightsError" \in changed THEN TRUE ELSE UNCHANGED insightsError
  /\ IF "insightsDb" \in changed THEN TRUE ELSE UNCHANGED insightsDb
  /\ IF "insightRequests" \in changed THEN TRUE ELSE UNCHANGED insightRequests
  /\ UNCHANGED <<appVars, canonVars, totalsVars, describeVars, budgetVars>>

\* loadInsights (lines 30-42): GET /insights answers
LoadInsightsOk ==
  /\ insightsLoading
  /\ insights' = insightsDb.insights
  /\ insightsLoading' = FALSE
  /\ InsightsFrame({"insights", "insightsLoading"})

LoadInsightsFail ==
  /\ insightsLoading
  /\ insightsError' = Some("HTTP 500: insights")
  /\ insightsLoading' = FALSE
  /\ InsightsFrame({"insightsError", "insightsLoading"})

\* the buttons that open and close the form (lines 138, 175, 228, 316)
SetShowGenerateForm(shown) ==
  /\ ~insightsLoading
  /\ shown => \/ ~isGenerating
              \/ insights = <<>>
  /\ ~shown => showGenerateForm
  /\ showGenerateForm' = shown
  /\ InsightsFrame({"showGenerateForm"})

\* the query field's onChange (line 215)
SetNewQuery(typed) ==
  /\ ~insightsLoading
  /\ showGenerateForm
  /\ newQuery' = typed
  /\ InsightsFrame({"newQuery"})

\* the queries a button of the form hands to generateInsight (lines 192-200
\* and 238-239)
OfferedQueries ==
  {suggestedQueries[i] : i \in 1..Len(suggestedQueries)}
  \cup (IF trim(newQuery) # <<>> THEN {newQuery} ELSE {})

\* generateInsight up to its await (lines 44-48)
GenerateInsight(query) ==
  /\ ~insightsLoading
  /\ showGenerateForm
  /\ ~isGenerating
  /\ query \in OfferedQueries
  /\ Len(insightRequests) < MaxRequests
  /\ insightsDb.issued
       + Cardinality({i \in 1..Len(insightRequests) :
                        insightRequests[i].op = "generate"}) < MaxInsights
  /\ isGenerating' = TRUE
  /\ insightsError' = None
  /\ insightRequests' =
       Append(insightRequests, [op |-> "generate", arg |-> query, live |-> TRUE])
  /\ InsightsFrame({"isGenerating", "insightsError", "insightRequests"})

\* the requests in flight without the i-th
WithoutRequest(i) ==
  [k \in 1..(Len(insightRequests) - 1) |->
     IF k < i THEN insightRequests[k] ELSE insightRequests[k + 1]]

\* POST /insights/generate answers: the backend has stored the insight
\* under a new id; generateInsight, lines 50-62 and 67
GenerateInsightOk(i) ==
  /\ i \in 1..Len(insightRequests)
  /\ insightRequests[i].op = "generate"
  /\ LET newInsight == [id |-> insightsDb.issued + 1, query |-> insightRequests[i].arg]
     IN /\ insightsDb' = [insights |-> <<newInsight>> \o insightsDb.insights,
                          issued |-> insightsDb.issued + 1]
        /\ insightRequests' = WithoutRequest(i)
        /\ IF insightRequests[i].live
           THEN /\ insights' = <<newInsight>> \o insights
                /\ newQuery' = <<>>
                /\ showGenerateForm' = FALSE
                /\ isGenerating' = FALSE
                /\ InsightsFrame({"insightsDb", "insightRequests", "insights",
                                  "newQuery", "showGenerateForm", "isGenerating"})
           ELSE InsightsFrame({"insightsDb", "insightRequests"})

\* POST /insights/generate fails: the catch and finally (lines 63-68)
GenerateInsightFail(i) ==
  /\ i \in 1..Len(insightRequests)
  /\ insightRequests[i].op = "generate"
  /\ insightRequests' = WithoutRequest(i)
  /\ IF insightRequests[i].live
     THEN /\ insightsError' = Some("HTTP 500: insights/generate")
          /\ isGenerating' = FALSE
          /\ InsightsFrame({"insightRequests", "insightsError", "isGenerating"})
     ELSE InsightsFrame({"insightRequests"})

\* deleteInsight removing the insight from the list before the backend answers
DeleteInsightOptimistic(insightId) ==
  /\ ~insightsLoading
  /\ \E k \in 1..Len(insights) : insights[k].id = insightId
  /\ Len(insightRequests) < MaxRequests
  /\ insights' = SelectSeq(insights, LAMBDA insight : insight.id # insightId)
  /\ insightRequests' =
       Append(insightRequests, [op |-> "delete", arg |-> insightId, live |-> TRUE])
  /\ InsightsFrame({"insights", "insightRequests"})

\* deleteInsight up to its await (lines 71-73), from the button of a
\* displayed insight (line 281)
DeleteInsight(insightId) ==
  /\ ~insightsLoading
  /\ \E k \in 1..Len(insights) : insights[k].id = insightId
  /\ Len(insightRequests) < MaxRequests
  /\ insightRequests' =
       Append(insightRequests, [op |-> "delete", arg |-> insightId, live |-> TRUE])
  /\ InsightsFrame({"insightRequests"})

\* DELETE /insights/<id> answers: the backend has deleted the insight;
\* deleteInsight, line 74
DeleteInsightOk(i) ==
  /\ i \in 1..Len(insightRequests)
  /\ insightRequests[i].op = "delete"
  /\ \E k \in 1..Len(insightsDb.insights) :
       insightsDb.insights[k].id = insightRequests[i].arg
  /\ insightsDb' =
       [insightsDb EXCEPT
          !.insights = SelectSeq(@, LAMBDA insight : insight.id # insightRequests[i].arg)]
  /\ insightRequests' = WithoutRequest(i)
  /\ IF insightRequests[i].live
     THEN /\ insights' =
               SelectSeq(insights, LAMBDA insight : insight.id # insightRequests[i].arg)
          /\ InsightsFrame({"insightsDb", "insightRequests", "insights"})
     ELSE InsightsFrame({"insightsDb", "insightRequests"})

\* DELETE /insights/<id> fails: the catch (lines 75-78)
DeleteInsightFail(i) ==
  /\ i \in 1..Len(insightRequests)
  /\ insightRequests[i].op = "delete"
  /\ insightRequests' = WithoutRequest(i)
  /\ IF insightRequests[i].live
     THEN /\ insightsError' = Some("HTTP 500: insights/delete")
          /\ InsightsFrame({"insightRequests", "insightsError"})
     ELSE InsightsFrame({"insightRequests"})

\* Insights is left and shown again: useState initial values (lines 9-14)
\* and loadInsights; the requests in flight belong to the Insights that is gone
InsightsRemounted ==
  /\ insights' = <<>>
  /\ insightsLoading' = TRUE
  /\ isGenerating' = FALSE
  /\ showGenerateForm' = FALSE
  /\ newQuery' = <<>>
  /\ insightsError' = None
  /\ insightRequests' =
       [k \in 1..Len(insightRequests) |-> [insightRequests[k] EXCEPT !.live = FALSE]]
  /\ InsightsFrame({"insights", "insightsLoading", "isGenerating", "showGenerateForm",
                    "newQuery", "insightsError", "insightRequests"})

InsightsNext ==
  \/ LoadInsightsOk
  \/ LoadInsightsFail
  \/ \E shown \in BOOLEAN : SetShowGenerateForm(shown)
  \/ \E typed \in QueryTexts : SetNewQuery(typed)
  \/ \E query \in Queries : GenerateInsight(query)
  \/ \E i \in 1..MaxRequests : GenerateInsightOk(i)
  \/ \E i \in 1..MaxRequests : GenerateInsightFail(i)
  \/ \E insightId \in 1..MaxInsights : DeleteInsight(insightId)
  \/ \E i \in 1..MaxRequests : DeleteInsightOk(i)
  \/ \E i \in 1..MaxRequests : DeleteInsightFail(i)
  \/ InsightsRemounted

SpecInsights == Init /\ [][InsightsNext]_vars

\* ------------------------------------------------------------------------
\* The canonicalizer run on one raw parse: as loadExpenses runs it
\* (convertBackendExpenseToFrontend), and as a submission runs it
\* (parseExpenseFromText, then handleReceiptParsed)
\* ------------------------------------------------------------------------
ParticipantTokens == {sMe, cMe, cI, sMyself, sEmpty, You, Priya}
CleanTokens == {You, sMe, Priya}

\* raw parses that differ in who took part
ParticipantResponses ==
  {[participants |-> p, clean_participants |-> c, is_shared |-> f,
    line_items |-> Some(<<ItemRice>>), total_amount |-> Fin(1000)] :
     p \in SeqsUpTo(ParticipantTokens, MaxParticipants),
     c \in {None} \cup {Some(l) : l \in SeqsUpTo(CleanTokens, MaxParticipants)},
     f \in IsSharedFlags}

\* raw parses that differ in the line items and the total
AmountResponses ==
  {[participants |-> p, clean_participants |-> None, is_shared |-> None,
    line_items |-> li, total_amount |-> ta] :
     p \in {<<>>, <<Priya>>},
     li \in {None, Some(<<>>), Some(<<ItemRice>>), Some(<<ItemRice, ItemCafe>>),
             Some(<<ItemCafe, ItemRice>>)},
     ta \in {Fin(0), Fin(1000), Fin(2500), NaN, Infinity, Undefined}}

CanonInit ==
  /\ AppInit
  /\ InsightsInit
  /\ BudgetInit
  /\ TotalsIdle
  /\ DescribeIdle
  /\ cStage = "raw"
  /\ cOut = None
  /\ \/ cResponse \in ParticipantResponses /\ cText = tLunch
     \/ cResponse \in AmountResponses /\ cText \in {tLunch, tBigBazaar}

\* loadExpenses, line 36: the stored parse is converted
CanonConvert ==
  /\ cStage = "raw"
  /\ cOut' = convertBackendExpenseToFrontend(StoredExpense(cText, cResponse, 1))
  /\ cStage' = "converted"
  /\ UNCHANGED <<cText, cResponse, appVars, totalsVars, describeVars,
                 insightsVars, budgetVars>>

\* handleSubmit, line 71: the answer of POST /parse-expense is converted
CanonParse ==
  /\ cStage = "raw"
  /\ cOut' = parseExpenseFromText(cText, ParseExpenseResponse(cResponse, 1), Now)
  /\ cStage' = "parsed"
  /\ UNCHANGED <<cText, cResponse, appVars, totalsVars, describeVars,
                 insightsVars, budgetVars>>

\* handleSubmit, line 83: handleReceiptParsed finishes the parsed expense
CanonReceive ==
  /\ cStage = "parsed"
  /\ cOut.ok
  /\ cOut' = Returned(ReceiptExpense(cOut.val, 1))
  /\ cStage' = "received"
  /\ UNCHANGED <<cText, cResponse, appVars, totalsVars, describeVars,
                 insightsVars, budgetVars>>

CanonNext == CanonConvert \/ CanonParse \/ CanonReceive

SpecCanon == CanonInit /\ [][CanonNext]_vars

\* ------------------------------------------------------------------------
\* The Dashboard renders one shared expense, expanded (part_002 386-600)
\* ------------------------------------------------------------------------
SplitMe == [participant |-> sMe, amount |-> 600]
SplitCapitalMe == [participant |-> cMe, amount |-> 600]
SplitYou == [participant |-> You, amount |-> 300]
SplitPriya == [participant |-> Priya, amount |-> 400]

\* the splits a line item of the backend data carries
SplitLists ==
  {<<>>, <<SplitMe>>, <<SplitCapitalMe>>, <<SplitMe, SplitPriya>>, <<SplitYou, SplitMe>>,
   <<SplitYou, SplitCapitalMe>>, <<SplitPriya, SplitPriya>>}

\* the line items of the backend data: with splits, with none, or without the field
SplitItems ==
  {[description |-> dRice, amount |-> a, category |-> None, splits |-> sp] :
     a \in {0, 1000},
     sp \in {None} \cup {Some(l) : l \in SplitLists}}

\* the expenses the Dashboard renders: with the backend data kept by the
\* conversion, or without it
RenderedExpenses ==
  {[totalAmount |-> ta,
    lineItems |-> ConvertLineItems(items),
    backendData |-> IF kept THEN Some([line_items |-> items]) ELSE None] :
     ta \in {Fin(0), Fin(1000)},
     items \in SeqsUpTo(SplitItems, MaxItems),
     kept \in BOOLEAN}

TotalsInit ==
  /\ AppInit
  /\ InsightsInit
  /\ BudgetInit
  /\ CanonIdle
  /\ DescribeIdle
  /\ tStage = "input"
  /\ tExpense \in {Some(e) : e \in RenderedExpenses}
  /\ tTotals = <<>>
  /\ tPercent = <<>>

\* the percentages of lines 440-443 for the totals of line 391
ParticipantPercentages(participantTotals, expense) ==
  [k \in DOMAIN participantTotals |->
     PercentageOf(participantTotals[k], expense.totalAmount)]

\* the percentages of lines 564-567 for the splits of each line item
SplitPercentages(lineItemsWithSplits) ==
  [i \in 1..Len(lineItemsWithSplits) |->
     IF IsSome(lineItemsWithSplits[i].splits)
     THEN [j \in 1..Len(Val(lineItemsWithSplits[i].splits)) |->
             PercentageOf(Val(lineItemsWithSplits[i].splits)[j].amount,
                          Fin(lineItemsWithSplits[i].amount))]
     ELSE <<>>]

RenderSharedExpense ==
  /\ tStage = "input"
  /\ tTotals' = calculateParticipantTotals(getExpenseWithSplits(Val(tExpense)))
  /\ tPercent' =
       [participants |->
          ParticipantPercentages(
            calculateParticipantTotals(getExpenseWithSplits(Val(tExpense))),
            Val(tExpense)),
        splits |-> SplitPercentages(getExpenseWithSplits(Val(tExpense)))]
  /\ tStage' = "rendered"
  /\ UNCHANGED <<tExpense, appVars, canonVars, describeVars,
                 insightsVars, budgetVars>>

TotalsNext == RenderSharedExpense

SpecTotals == TotalsInit /\ [][TotalsNext]_vars

\* ------------------------------------------------------------------------
\* extractVendorName and categorizeExpense applied to one text and one list of
\* line items
\* ------------------------------------------------------------------------
tWentTo ==
  <<"Y","e","s","t","e","r","d","a","y"," ","I"," ","w","e","n","t"," ","t","o"," ","B","i","g"," ","B","a","z","a","a","r"," ","w","i","t","h"," ","P","r","i","y","a">>
tShortThenFrom ==
  <<"a","t"," ","K","F","."," ","f","r","o","m"," ","B","i","g"," ","B","a","z","a","a","r">>
tAtAndFrom ==
  <<"a","t"," ","c","a","f","e"," ","m","o","c","h","a"," ","f","r","o","m"," ","b","i","g"," ","b","a","z","a","a","r">>
tBoughtFrom ==
  <<"b","o","u","g","h","t"," ","r","i","c","e"," ","f","r","o","m"," ","D","M","a","r","t"," ","t","o","d","a","y">>
tFlatRent ==
  <<"f","l","a","t"," ","r","e","n","t"," ","f","o","r"," ","M","a","y">>
tNoText ==
  <<>>
tLongThenFrom ==
  <<"a","t"," ","a","a","a","a","a","a","a","a","a","a","a","a","a","a","a","a","a","a","a","a","a","a","a","a","a","a","a","a","a","a","a","a","a","a","a","a","a","a","a","a","a","a","a","a","a","a","a","a","a","a","."," ","f","r","o","m"," ","D","M","a","r","t">>
tThreeLetters ==
  <<"w","e","n","t"," ","t","o"," ","K","F","C">>
tSpaced ==
  <<"P","a","i","d"," ","a","t"," "," ","C","a","f","e"," ","M","o","c","h","a"," "," "," ","f","o","r"," ","l","u","n","c","h">>
tUpper ==
  <<"A","T"," ","S","T","A","R","B","U","C","K","S"," ","T","O","D","A","Y">>

\* the source texts
SourceTexts ==
  {tWentTo, tBigBazaar, tLunch, tShortThenFrom, tAtAndFrom, tBoughtFrom, tFlatRent, tNoText, tLongThenFrom, tThreeLetters, tSpaced, tUpper}

dDal ==
  <<"d","a","l">>
dGroceryRun ==
  <<"g","r","o","c","e","r","y"," ","r","u","n">>
dSnacks ==
  <<"s","n","a","c","k","s">>
dFastFood ==
  <<"f","a","s","t"," ","f","o","o","d">>
dPetrol ==
  <<"P","e","t","r","o","l">>
dWaterBottle ==
  <<"w","a","t","e","r"," ","b","o","t","t","l","e">>
dPhone ==
  <<"p","h","o","n","e"," ","c","o","v","e","r">>
dShopping ==
  <<"s","h","o","p","p","i","n","g">>
dElectricity ==
  <<"e","l","e","c","t","r","i","c","i","t","y">>
dVeg ==
  <<"v","e","g">>
dAssorted ==
  <<"a","s","s","o","r","t","e","d">>
dTwentyNine ==
  <<"a","a","a","a","a","a","a","a","a","a","a","a","a","a","a","a","a","a","a","a","a","a","a","a","a","a","a","a","a">>
dThirty ==
  <<"w","e","e","k","l","y"," ","v","e","g","e","t","a","b","l","e","s"," ","a","n","d"," ","f","r","u","i","t","s"," ","b">>

LineItem(description, amount) ==
  [description |-> description, amount |-> amount, category |-> None, splits |-> None]

\* the line-item lists: empty, a single item, a highest item in either place,
\* equal amounts, descriptions of 29, 30 and 0 characters, category keywords,
\* the same descriptions in another order and with other amounts and tags
LineItemLists ==
  {<<>>,
   <<ItemRice>>,
   <<ItemRice, ItemCafe>>,
   <<ItemCafe, ItemRice>>,
   <<ItemRice, LineItem(dDal, 1000)>>,
   <<LineItem(dDal, 1000), ItemRice>>,
   <<ItemRice, LineItem(dThirty, 2000)>>,
   <<LineItem(dTwentyNine, 2000), ItemRice>>,
   <<LineItem(<<>>, 3000), ItemRice>>,
   <<LineItem(dGroceryRun, 800), LineItem(dSnacks, 200)>>,
   <<LineItem(dGroceryRun, 800), LineItem(dFastFood, 900)>>,
   <<LineItem(dPetrol, 500)>>,
   <<LineItem(dWaterBottle, 40), LineItem(dPhone, 300)>>,
   <<LineItem(dShopping, 700), LineItem(dElectricity, 700)>>,
   <<LineItem(dElectricity, 1200)>>,
   <<LineItem(dVeg, 300), LineItem(dAssorted, 450)>>,
   <<LineItem(dAssorted, 450), LineItem(dVeg, 300)>>,
   <<[description |-> dSnacks, amount |-> 5, category |-> Some("Dining"),
      splits |-> Some(<<>>)],
     LineItem(dGroceryRun, 10)>>}

DescribeInit ==
  /\ AppInit
  /\ InsightsInit
  /\ BudgetInit
  /\ CanonIdle
  /\ TotalsIdle
  /\ dText \in SourceTexts
  /\ dItems \in LineItemLists
  /\ dVendorName = None
  /\ dCategory = None

\* convertBackendExpenseToFrontend, line 274
ExtractVendorName ==
  /\ dText \in SourceTexts
  /\ dVendorName = None
  /\ dVendorName' = Some(extractVendorName(dText, Some(dItems)))
  /\ UNCHANGED <<dText, dItems, dCategory, appVars, canonVars, totalsVars,
                 insightsVars, budgetVars>>

\* convertBackendExpenseToFrontend, line 288
CategorizeExpense ==
  /\ dText \in SourceTexts
  /\ dCategory = None
  /\ dCategory' = Some(categorizeExpense(dItems))
  /\ UNCHANGED <<dText, dItems, dVendorName, appVars, canonVars, totalsVars,
                 insightsVars, budgetVars>>

DescribeNext == ExtractVendorName \/ CategorizeExpense

SpecDescribe == DescribeInit /\ [][DescribeNext]_vars

\* ------------------------------------------------------------------------
\* Claims
\* ------------------------------------------------------------------------
MemberSet(members) == Range(members)

\* the canonicalizer has produced an expense
CanonProduced == cStage \in {"converted", "parsed", "received"} /\ cOut.ok

\* a successful loadExpenses: GET /expenses answered and every conversion returned
LoadSucceeds ==
  /\ GetExpensesOk
  /\ \A i \in 1..Len(backendDb) : convertBackendExpenseToFrontend(backendDb[i]).ok

\* C1: every expense the application holds is shared exactly when it has
\* sharedDetails and its members list names somebody other than 'You'.
SharedIffOthers(expense) ==
  (expense.type = "shared")
    <=> /\ IsSome(expense.sharedDetails)
        /\ IsSome(expense.members)
        /\ \E j \in 1..Len(Val(expense.members)) : Val(expense.members)[j] # You

C1_SharedIffOtherMembers ==
  \A i \in 1..Len(expenses) : SharedIffOthers(expenses[i])

\* C2: when the raw parse supplies is_shared, the expense is shared exactly when
\* the flag says so, whether it was loaded (convertBackendExpenseToFrontend) or
\* freshly parsed (parseExpenseFromText); without the flag it is shared exactly
\* when there are clean participants.
C2_ExplicitFlagDecides ==
  (cStage \in {"converted", "parsed"} /\ cOut.ok)
    => (cOut.val.type = "shared")
         = (IF IsSome(cResponse.is_shared) THEN Val(cResponse.is_shared)
            ELSE Len(CleanParticipants(cResponse)) > 0)

\* C3: a shared canonical expense has a non-empty members list that holds 'You'
\* exactly once.
C3_YouExactlyOnce ==
  (CanonProduced /\ cOut.val.type = "shared")
    => /\ IsSome(cOut.val.members)
       /\ Cardinality({j \in 1..Len(Val(cOut.val.members)) :
                         Val(cOut.val.members)[j] = You}) = 1

\* C4: the canonicalizer fails when line_items is absent or total_amount is not
\* a finite number, and never produces an expense whose totalAmount is not finite.
C4_MalformedInputFails ==
  (cStage \in {"converted", "parsed"})
    => /\ (~IsSome(cResponse.line_items) \/ ~IsFinite(cResponse.total_amount)) => ~cOut.ok
       /\ cOut.ok => IsFinite(cOut.val.totalAmount)

\* the participant alias of the specification: 'me' in any casing is 'You'
AliasedParticipant(participant) ==
  IF toLowerCase(participant) = sMe THEN You ELSE participant

AliasedTotals(lineItemsWithSplits) ==
  LET visited == VisitedSplits(lineItemsWithSplits)
      keys == {AliasedParticipant(visited[i].participant) : i \in 1..Len(visited)}
      isFor(k, split) == AliasedParticipant(split.participant) = k
  IN [k \in keys |-> SumAmounts(SelectSeq(visited, LAMBDA sp : isFor(k, sp)))]

\* C5: the participant totals alias 'me' to 'You' case-insensitively: splits
\* named 'me', 'Me' or 'ME' are accumulated under the single key 'You', so
\* {me: 600, Priya: 400} gives exactly {You: 600, Priya: 400}, and no key
\* spelled 'me' in any casing appears in the result.
C5_MeIsYouInAnyCase ==
  (tStage = "rendered")
    => /\ \A k \in DOMAIN tTotals : toLowerCase(k) # sMe
       /\ tTotals = AliasedTotals(getExpenseWithSplits(Val(tExpense)))

\* C6: no rendered percentage is infinite or NaN: with a total amount of 0, or a
\* line item amount of 0, the outcome is an explicit not-applicable.
C6_NoInfiniteOrNaNPercentage ==
  (tStage = "rendered")
    => /\ \A k \in DOMAIN tPercent.participants :
            tPercent.participants[k].kind \notin {"Infinity", "NaN"}
       /\ \A i \in 1..Len(tPercent.splits) :
            \A j \in 1..Len(tPercent.splits[i]) :
              tPercent.splits[i][j].kind \notin {"Infinity", "NaN"}

SharedExpensesOf(exps) ==
  {i \in 1..Len(exps) : exps[i].type = "shared" /\ IsSome(exps[i].members)}

\* the member sets of a collection of spaces
MemberSetsOf(spaces) == {MemberSet(spaces[i].members) : i \in 1..Len(spaces)}

NoTwoSpacesWithEqualMemberSets(spaces) ==
  \A i, j \in 1..Len(spaces) :
    MemberSet(spaces[i].members) = MemberSet(spaces[j].members) => i = j

MatchedOnlyToEqualMemberSets(spaces, exps) ==
  \A i \in 1..Len(spaces) : \A j \in SharedExpensesOf(exps) :
    SpaceMatches(spaces[i], exps[j])
      => MemberSet(spaces[i].members) = MemberSet(Val(exps[j].members))

\* C7: the shared spaces a successful loadExpenses groups hold no two spaces
\* with equal member sets, and no space matches an expense whose member set
\* differs from its own, repeated participants included.
C7_GroupedMemberSetsUnique ==
  [][LoadSucceeds
       => /\ NoTwoSpacesWithEqualMemberSets(sharedSpaces')
          /\ MatchedOnlyToEqualMemberSets(sharedSpaces', expenses')]_vars

PermutedSeqs(s) ==
  {[i \in 1..Len(s) |-> s[p[i]]] : p \in Permutations(1..Len(s))}

\* an expense with its members list in any order
PermutedMembers(expense) ==
  IF IsSome(expense.members)
  THEN {[expense EXCEPT !.members = Some(m)] : m \in PermutedSeqs(Val(expense.members))}
  ELSE {expense}

\* a collection in any order, each expense with its members in any order
PermutedCollections(exps) ==
  UNION {{q \in [1..Len(exps) -> UNION {PermutedMembers(o[i]) : i \in 1..Len(o)}] :
            \A i \in 1..Len(o) : q[i] \in PermutedMembers(o[i])} :
         o \in PermutedSeqs(exps)}

\* C8: grouping is insensitive to input order: regrouping the loaded expenses
\* from scratch, in any order and with each members list in any order, gives
\* the member sets of the spaces the load grouped.
C8_GroupingOrderInsensitive ==
  [][LoadSucceeds
       => \A q \in PermutedCollections(expenses') :
            MemberSetsOf(GroupSharedSpaces(q, <<>>, {})) = MemberSetsOf(sharedSpaces')]_vars

\* the ids of the spaces an expense maps to: the space it names, or, for an
\* expense that names none, the spaces the grouping matches it to
SpaceIdsOf(expense) ==
  IF IsSome(expense.sharedSpaceId) THEN {Val(expense.sharedSpaceId)}
  ELSE {sharedSpaces[i].id : i \in {k \in 1..Len(sharedSpaces) :
                                      SpaceMatches(sharedSpaces[k], expense)}}

\* C9: every shared expense maps to exactly one shared space id, and two
\* shared expenses map to the same id exactly when their member sets are equal
\* (an existing space with the same member set is reused).
C9_OneSpacePerMemberSet ==
  (loadPc = "idle" /\ submitPc = "idle")
    => /\ \A i \in SharedExpensesOf(expenses) :
            /\ Cardinality(SpaceIdsOf(expenses[i])) = 1
            /\ \E k \in 1..Len(sharedSpaces) : sharedSpaces[k].id \in SpaceIdsOf(expenses[i])
       /\ \A i, j \in SharedExpensesOf(expenses) :
            (SpaceIdsOf(expenses[i]) = SpaceIdsOf(expenses[j]))
              <=> (MemberSet(Val(expenses[i].members)) = MemberSet(Val(expenses[j].members)))

\* C10: the held shared spaces are, by member-set content, the grouping of the
\* held expenses: exactly one space for each distinct member set of a shared
\* expense and no other space.
C10_SpacesAreTheGrouping ==
  LET sets == {MemberSet(Val(expenses[i].members)) : i \in SharedExpensesOf(expenses)}
  IN (loadPc = "idle" /\ submitPc = "idle")
       => /\ MemberSetsOf(sharedSpaces) = sets
          /\ NoTwoSpacesWithEqualMemberSets(sharedSpaces)

\* C11: a shared canonical expense has members ['You'] followed by the clean
\* participants in their order, sharedDetails.members equal to members and
\* sharedDetails.paidBy 'You'; a personal one has members, sharedDetails and
\* sharedSpaceId unset.
C11_SharingFieldsFollowType ==
  CanonProduced
    => IF cOut.val.type = "shared"
       THEN /\ cOut.val.members = Some(<<You>> \o Val(cOut.val.backendData).clean_participants)
            /\ IsSome(cOut.val.sharedDetails)
            /\ Val(cOut.val.sharedDetails).members = Val(cOut.val.members)
            /\ Val(cOut.val.sharedDetails).paidBy = You
       ELSE /\ cOut.val.type = "personal"
            /\ cOut.val.members = None
            /\ cOut.val.sharedDetails = None
            /\ cOut.val.sharedSpaceId = None

\* 'me', 'myself' or 'i' in any casing
IsSelfToken(p) == toLowerCase(p) \in {sMe, sMyself, sI}

\* the clean participants the canonicalizer worked with
CleanOf(out) == Val(out.val.backendData).clean_participants

\* C12 as stated: cleanParticipants is clean_participants when that is
\* supplied, and otherwise the participants, in order, without exactly the
\* entries that are 'me', 'myself' or 'i' in any casing.
C12_OnlySelfTokensRemoved ==
  CanonProduced
    => CleanOf(cOut) =
         IF IsSome(cResponse.clean_participants) THEN Val(cResponse.clean_participants)
         ELSE SelectSeq(cResponse.participants, LAMBDA p : ~IsSelfToken(p))

\* C12 amended: cleanParticipants is clean_participants when that is supplied,
\* and otherwise the participants, in order, without the entries that are empty
\* or are 'me', 'myself' or 'i' in any casing.
C12_SelfTokensAndEmptyRemoved ==
  CanonProduced
    => CleanOf(cOut) =
         IF IsSome(cResponse.clean_participants) THEN Val(cResponse.clean_participants)
         ELSE SelectSeq(cResponse.participants, LAMBDA p : p # <<>> /\ ~IsSelfToken(p))

C12_Witness ==
  /\ cStage = "converted"
  /\ cOut.ok
  /\ cResponse.clean_participants = None
  /\ cResponse.participants = <<cMe, Priya>>
  /\ CleanOf(cOut) = <<Priya>>

\* C13: the canonical expense's totalAmount is exactly the upstream
\* total_amount, whatever the line items add up to, and a total that differs
\* from the sum of the line items does not make the canonicalizer fail.
C13_UpstreamTotalKept ==
  (cStage \in {"converted", "parsed", "received"} /\ IsSome(cResponse.line_items))
    => /\ cOut.ok
       /\ cOut.val.totalAmount = cResponse.total_amount

C13_Witness ==
  /\ cStage = "converted"
  /\ cResponse.line_items = Some(<<ItemRice, ItemCafe>>)
  /\ cResponse.total_amount = Fin(1000)
  /\ cOut.ok
  /\ cOut.val.totalAmount = Fin(1000)
  /\ SumOfItemAmounts(Val(cResponse.line_items)) = 2500

RECURSIVE SumSeq(_)
SumSeq(ns) == IF ns = <<>> THEN 0 ELSE Head(ns) + SumSeq(Tail(ns))

RECURSIVE SumValues(_, _)
SumValues(f, keys) ==
  IF keys = {} THEN 0
  ELSE LET k == CHOOSE x \in keys : TRUE
       IN f[k] + SumValues(f, keys \ {k})

\* the splits each line item of the rendered expense carries (none when the
\* field is absent, and none at all without backend data)
CarriedSplits(expense) ==
  IF IsSome(expense.backendData)
  THEN [i \in 1..Len(Val(expense.backendData).line_items) |->
          IF IsSome(Val(expense.backendData).line_items[i].splits)
          THEN Val(Val(expense.backendData).line_items[i].splits)
          ELSE <<>>]
  ELSE <<>>

\* C14: the participant totals add up to the sum of all split amounts of all
\* line items (a line item without splits adds nothing, its amount is not
\* shared out), and every key is named by some split ('me' naming 'You').
C14_TotalsSumToSplits ==
  (tStage = "rendered")
    => LET carried == CarriedSplits(Val(tExpense))
       IN /\ SumValues(tTotals, DOMAIN tTotals)
               = SumSeq([i \in 1..Len(carried) |->
                           SumSeq([j \in 1..Len(carried[i]) |-> carried[i][j].amount])])
          /\ \A k \in DOMAIN tTotals :
               \E i \in 1..Len(carried) : \E j \in 1..Len(carried[i]) :
                 \/ carried[i][j].participant = k
                 \/ carried[i][j].participant = sMe /\ k = You

C14_Witness ==
  /\ tStage = "rendered"
  /\ CarriedSplits(Val(tExpense)) = <<<<SplitMe, SplitPriya>>, <<>>>>
  /\ Val(Val(tExpense).backendData).line_items[2].amount = 1000
  /\ Val(Val(tExpense).backendData).line_items[2].splits = None
  /\ tTotals = [k \in {You, Priya} |-> IF k = You THEN 600 ELSE 400]

\* the capture of pattern n qualifies: trimmed, it is longer than 2 and
\* shorter than 50 characters
CaptureQualifies(text, n) ==
  /\ IsSome(PatternCapture(text, n))
  /\ Len(trim(Val(PatternCapture(text, n)))) > 2
  /\ Len(trim(Val(PatternCapture(text, n)))) < 50

\* source texts with the vendor they name
VendorFixtures ==
  {<<tWentTo, <<"B","i","g"," ","B","a","z","a","a","r">>>>,
   <<tBigBazaar, <<"B","i","g"," ","B","a","z","a","a","r">>>>,
   <<tShortThenFrom, <<"B","i","g"," ","B","a","z","a","a","r">>>>,
   <<tAtAndFrom, <<"C","a","f","e"," ","M","o","c","h","a"," ","F","r","o","m"," ","B","i","g"," ","B","a","z","a","a","r">>>>,
   <<tBoughtFrom, <<"D","m","a","r","t">>>>,
   <<tFlatRent, <<"R","e","n","t">>>>,
   <<tLongThenFrom, <<"D","m","a","r","t">>>>,
   <<tThreeLetters, <<"K","f","c">>>>,
   <<tSpaced, <<"C","a","f","e"," ","M","o","c","h","a">>>>,
   <<tUpper, <<"S","t","a","r","b","u","c","k","s">>>>}

\* C15: the vendor is the word-capitalized, trimmed capture of the first of the
\* patterns 'at', 'went to', 'from', 'bought ... from' whose capture qualifies,
\* patterns whose capture does not qualify being skipped; 'Yesterday I went to
\* Big Bazaar with Priya' gives 'Big Bazaar'.
C15_FirstQualifyingPatternWins ==
  IsSome(dVendorName)
    => /\ \A n \in VendorPatterns :
            (CaptureQualifies(dText, n) /\ \A m \in 1..(n - 1) : ~CaptureQualifies(dText, m))
              => Val(dVendorName) = Returned(capitalizeWords(trim(Val(PatternCapture(dText, n)))))
       /\ \A f \in VendorFixtures : dText = f[1] => Val(dVendorName) = Returned(f[2])

\* 'at' captures 'KF', which is too short, and 'from' is tried next
C15_Witness ==
  /\ dText = tShortThenFrom
  /\ ~CaptureQualifies(dText, 1)
  /\ CaptureQualifies(dText, 3)
  /\ dVendorName = Some(Returned(<<"B","i","g"," ","B","a","z","a","a","r">>))

NoCaptureQualifies(text) == \A n \in VendorPatterns : ~CaptureQualifies(text, n)

\* the first, in list order, of the line items of highest amount
HighestItem(items) ==
  items[Min({i \in 1..Len(items) : \A j \in 1..Len(items) : items[i].amount >= items[j].amount})]

\* C16: when no pattern qualifies and there are line items, the vendor is the
\* word-capitalized description of the first line item of highest amount if
\* that description is shorter than 30 characters; no other item is consulted,
\* so a highest item with a longer description gives 'Expense'.
C16_FallbackToHighestItem ==
  (IsSome(dVendorName) /\ NoCaptureQualifies(dText) /\ dItems # <<>>)
    => Val(dVendorName) =
         IF Len(HighestItem(dItems).description) < 30
         THEN Returned(capitalizeWords(HighestItem(dItems).description))
         ELSE Returned(sExpense)

\* two items of amount 1000: the first one names the vendor
C16_Witness ==
  /\ dText = tLunch
  /\ dItems = <<LineItem(dDal, 1000), ItemRice>>
  /\ dVendorName = Some(Returned(<<"D","a","l">>))

\* C17: extractVendorName returns a string for every source text and every
\* list of line items, the empty list and items with an empty description
\* included, and it returns 'Expense' whenever no pattern qualifies and there
\* is no line item or the highest one's description has 30 characters or more.
C17_VendorAlwaysAString ==
  IsSome(dVendorName)
    => /\ Val(dVendorName).ok
       /\ (NoCaptureQualifies(dText)
           /\ (dItems = <<>> \/ Len(HighestItem(dItems).description) >= 30))
            => Val(dVendorName).val = sExpense

\* no pattern in the text and no line item
C17_Witness ==
  /\ dText = tLunch
  /\ dItems = <<>>
  /\ dVendorName = Some(Returned(sExpense))

\* the categories in their order, each with its keywords
CategoryTable ==
  <<[category |-> "Dining", keywords |-> {kFood, kRestaurant, kCafe}],
    [category |-> "Groceries", keywords |-> {kGrocery, kSupermarket}],
    [category |-> "Transport", keywords |-> {kFuel, kGas, kPetrol}],
    [category |-> "Electronics", keywords |-> {kElectronics, kPhone, kLaptop}],
    [category |-> "Shopping", keywords |-> {kClothes, kShopping}],
    [category |-> "Utilities", keywords |-> {kUtility, kElectricity, kWater}]>>

\* the lower-cased descriptions joined by single spaces
SearchString(items) ==
  JoinSpace([i \in 1..Len(items) |-> toLowerCase(items[i].description)])

\* the places of the table one of whose keywords occurs in the search string
CategoriesFound(items) ==
  {c \in 1..Len(CategoryTable) :
     \E k \in CategoryTable[c].keywords : includes(SearchString(items), k)}

\* C18: the category is the first of Dining, Groceries, Transport,
\* Electronics, Shopping, Utilities one of whose keywords occurs in the
\* lower-cased, joined descriptions, and 'Other' when none does;
\* ['grocery run', 'snacks'] gives 'Groceries'.
C18_FirstCategoryInOrder ==
  IsSome(dCategory)
    => /\ Val(dCategory) =
            IF CategoriesFound(dItems) = {} THEN "Other"
            ELSE CategoryTable[Min(CategoriesFound(dItems))].category
       /\ (dItems = <<LineItem(dGroceryRun, 800), LineItem(dSnacks, 200)>>)
            => Val(dCategory) = "Groceries"

\* keywords of Groceries and of Dining: Dining is the earlier
C18_Witness ==
  /\ dItems = <<LineItem(dGroceryRun, 800), LineItem(dFastFood, 900)>>
  /\ CategoriesFound(dItems) = {1, 2}
  /\ dCategory = Some("Dining")

\* a valid raw parse: participants, line_items and total_amount are present
ValidRawParse(response) ==
  /\ IsSome(response.line_items)
  /\ response.total_amount.kind # "undefined"

\* C19: for a valid raw parse the canonicalizer returns an expense whose type is
\* 'personal' or 'shared', from convertBackendExpenseToFrontend, from
\* parseExpenseFromText and after handleReceiptParsed.
C19_TypeAlwaysSet ==
  (cStage \in {"converted", "parsed", "received"} /\ ValidRawParse(cResponse))
    => /\ cOut.ok
       /\ cOut.val.type \in {"personal", "shared"}

\* a parse without participants, through handleReceiptParsed
C19_Witness ==
  /\ cStage = "received"
  /\ ValidRawParse(cResponse)
  /\ cResponse.participants = <<>>
  /\ cResponse.is_shared = None
  /\ cOut.ok
  /\ cOut.val.type = "personal"

\* the fields of an expense that stay as the conversion made them
FrameOf(expense) ==
  <<expense.id, expense.vendorName, expense.transactionDate, expense.totalAmount,
    expense.category, expense.lineItems, expense.members>>

\* the expense parseExpenseFromText returns to the submission in flight
ParsedFor(response) ==
  parseExpenseFromText(submitText, ParseExpenseResponse(response, Len(backendDb) + 1), Now)

\* C20: handleReceiptParsed appends the new expense with id, vendorName,
\* transactionDate, totalAmount, category, lineItems and members as the
\* conversion made them, and no step changes a field of an expense that is
\* already held: the held expenses stay as they are, in place, until a
\* successful loadExpenses discards them for the newly converted ones.
C20_OnlySharingFieldsChange ==
  [][IF LoadSucceeds
     THEN expenses' = [i \in 1..Len(backendDb) |->
                         convertBackendExpenseToFrontend(backendDb[i]).val]
     ELSE /\ Len(expenses') \in {Len(expenses), Len(expenses) + 1}
          /\ \A i \in 1..Len(expenses) : expenses'[i] = expenses[i]
          /\ (submitPc = "parsing" /\ Len(expenses') = Len(expenses) + 1)
               => \A response \in AppResponses :
                    ParseExpenseOk(response)
                      => FrameOf(expenses'[Len(expenses')]) = FrameOf(ParsedFor(response).val)]_vars

\* a second expense was appended as shared, behind one already held
C20_Witness ==
  /\ Len(expenses) = 2
  /\ IsSome(expenses[2].sharedSpaceId)
  /\ expenses[2].type = "shared"
  /\ expenses[1].sharedSpaceId = None
  /\ loadPc = "idle"
  /\ submitPc = "idle"

\* ------------------------------------------------------------------------
\* C21. Every shared space the application holds, made by the grouping of
\* loadExpenses or by handleReceiptParsed for a newly parsed shared expense,
\* is named "<vendorName> Group" after a held shared expense with the same
\* member list, and no two spaces have the same id.
\* ------------------------------------------------------------------------
SpaceMadeFor(space, expense) ==
  /\ expense.type = "shared"
  /\ IsSome(expense.members)
  /\ space.name = expense.vendorName \o sGroup
  /\ space.members = Val(expense.members)

C21_SpacesNamedGroup ==
  /\ \A i \in 1..Len(sharedSpaces) :
       \E j \in 1..Len(expenses) : SpaceMadeFor(sharedSpaces[i], expenses[j])
  /\ \A i, j \in 1..Len(sharedSpaces) :
       sharedSpaces[i].id = sharedSpaces[j].id => i = j

\* ------------------------------------------------------------------------
\* C22. The category does not depend on the order of the line items, nor on
\* their amounts, category tags or splits: every list with the same
\* descriptions as the categorized one, in any order, gets the same category.
\* ------------------------------------------------------------------------
SameDescriptions(a, b) ==
  /\ Len(a) = Len(b)
  /\ \E p \in Permutations(1..Len(a)) :
       \A i \in 1..Len(a) : b[i].description = a[p[i]].description

C22_CategoryOrderInsensitive ==
  IsSome(dCategory)
    => \A items \in LineItemLists \cup PermutedSeqs(dItems) :
         SameDescriptions(dItems, items) => categorizeExpense(items) = Val(dCategory)

\* 'veg' then 'assorted': 'gas' is spelt across the two descriptions in this
\* order only, and the list in the other order is among the lists
C22_Witness ==
  /\ dItems = <<LineItem(dVeg, 300), LineItem(dAssorted, 450)>>
  /\ <<LineItem(dAssorted, 450), LineItem(dVeg, 300)>> \in LineItemLists
  /\ dCategory = Some("Other")

\* ------------------------------------------------------------------------
\* C23. The expense shown after a successful parse (parseExpenseFromText,
\* then handleReceiptParsed) has the same type, members and sharedDetails as
\* the expense that loadExpenses later converts from the same stored parse.
\* ------------------------------------------------------------------------
\* what loadExpenses converts from the parse once the backend has stored it
Reloaded == convertBackendExpenseToFrontend(StoredExpense(cText, cResponse, 1))

C23_ParseAgreesWithReload ==
  (cStage = "received" /\ cOut.ok)
    => /\ Reloaded.ok
       /\ Reloaded.val.type = cOut.val.type
       /\ Reloaded.val.members = cOut.val.members
       /\ Reloaded.val.sharedDetails = cOut.val.sharedDetails

\* ------------------------------------------------------------------------
\* C24. A submission whose parse succeeds appends exactly one expense behind
\* the expenses already held, which stay as they were and in their order,
\* and shows the dashboard; a submission that fails or is rejected adds no
\* expense and no shared space.
\* ------------------------------------------------------------------------
\* the request in flight settles in this step
SubmissionSettles == submitPc = "parsing" /\ submitPc' = "idle"

C24_ReceiptAppendsOne ==
  [][/\ (SubmissionSettles /\ error' = None)
          => /\ Len(expenses') = Len(expenses) + 1
             /\ SubSeq(expenses', 1, Len(expenses)) = expenses
             /\ currentView' = "dashboard"
     /\ ((SubmissionSettles /\ IsSome(error')) \/ ParseExpenseFail \/ HandleSubmit)
          => UNCHANGED <<expenses, sharedSpaces>>]_vars

\* a second parse was appended behind a first one, which is held unchanged,
\* and the dashboard is shown
C24_Witness ==
  /\ Len(expenses) = 2
  /\ Len(backendDb) = 2
  /\ expenses[1].sharedSpaceId = Some(1)
  /\ expenses[2].sharedSpaceId = Some(2)
  /\ currentView = "dashboard"
  /\ ~isLoading
  /\ error = None

\* ------------------------------------------------------------------------
\* C25. A loadExpenses that fails (the health check or the expenses request
\* fails, or a conversion throws) leaves expenses and sharedSpaces as they
\* were, sets error to a message and ends with isInitialLoading false; one
\* that succeeds ends with error null and expenses being exactly the
\* converted backend list.
\* ------------------------------------------------------------------------
\* a conversion of line 36 throws
ConversionThrows ==
  \E i \in 1..Len(backendDb) : ~convertBackendExpenseToFrontend(backendDb[i]).ok

\* loadExpenses reaches the end of its finally block in this step
LoadEnds == loadPc # "idle" /\ loadPc' = "idle"

C25_LoadOutcome ==
  [][LoadEnds
       => /\ isInitialLoading' = FALSE
          /\ (loadPc = "health" \/ GetExpensesFail \/ ConversionThrows) => IsSome(error')
          /\ (loadPc = "expenses" /\ ~GetExpensesFail /\ ~ConversionThrows)
               => error' = None
          /\ IsSome(error') => UNCHANGED <<expenses, sharedSpaces>>
          /\ error' = None
               => /\ loadPc = "expenses"
                  /\ expenses' = [i \in 1..Len(backendDb) |->
                                    convertBackendExpenseToFrontend(backendDb[i]).val]]_vars

\* the expenses request of a reload failed, with an expense parsed earlier and
\* its shared space still held
C25_Witness ==
  /\ error = Some("HTTP 500: expenses")
  /\ loadPc = "idle"
  /\ ~isInitialLoading
  /\ Len(expenses) = 1
  /\ Len(sharedSpaces) = 1
  /\ expenses[1].sharedSpaceId = Some(sharedSpaces[1].id)

\* ------------------------------------------------------------------------
\* C26. handleSubmit does nothing when the text is blank or isLoading is
\* set, so it starts a request only when none is in flight; a submission
\* that succeeds hands over one expense and clears the form text, one that
\* fails keeps the entered text and sets error.
\* ------------------------------------------------------------------------
C26_OneRequestAtATime ==
  [][/\ HandleSubmit
          => /\ trim(billText) # <<>>
             /\ ~isLoading
             /\ submitPc = "idle"
     /\ submitPc' = "parsing" => isLoading'
     /\ (SubmissionSettles /\ error' = None)
          => /\ billText' = <<>>
             /\ Len(expenses') = Len(expenses) + 1
     /\ (SubmissionSettles /\ error' # None)
          => /\ billText' = billText
             /\ IsSome(error')
             /\ Len(expenses') = Len(expenses)]_vars

\* a request failed with the form still shown: the text is still there, the
\* error is set and the button is enabled again
C26_Witness ==
  /\ error = Some("HTTP 500: parse-expense")
  /\ billText = tBigBazaar
  /\ submitText = tBigBazaar
  /\ submitPc = "idle"
  /\ ~isLoading
  /\ FormRendered

\* ------------------------------------------------------------------------
\* C27. Every submission leaves isLoading false in the end: whenever
\* isLoading is set, the request settles (parse handed to handleReceiptParsed,
\* or an error) and isLoading is false afterwards; with no request in flight
\* isLoading is never set.
\* ------------------------------------------------------------------------
C27_LoadingEventuallyFalse ==
  /\ [](submitPc = "idle" => ~isLoading)
  /\ isLoading ~> (~isLoading /\ submitPc = "idle")

\* a parse went through handleReceiptParsed, the dashboard shows its expense
\* and isLoading is false
C27_Witness ==
  /\ ~isLoading
  /\ submitPc = "idle"
  /\ submitText = tBigBazaar
  /\ Len(backendDb) = 1
  /\ Len(expenses) = 1
  /\ expenses[1].transactionDate = DatePart(Now)
  /\ currentView = "dashboard"
  /\ error = None

\* ------------------------------------------------------------------------
\* C28. The current view is never 'chat': it starts as 'dashboard', the
\* disabled chat item never navigates, and every other transition goes to
\* 'dashboard', 'upload' or 'insights'.
\* ------------------------------------------------------------------------
C28_NeverChat ==
  /\ currentView # "chat"
  /\ currentView \in {"dashboard", "upload", "insights"}

\* the insights item was clicked after the dashboard had loaded
C28_Witness ==
  /\ currentView = "insights"
  /\ ~isInitialLoading
  /\ error = None
  /\ \E i \in 1..Len(navItems) : navItems[i].view = "chat" /\ navItems[i].disabled

\* ------------------------------------------------------------------------
\* C30. monthlyBudget is always a positive number: a save whose input is not
\* a number or is not above zero changes neither monthlyBudget nor the
\* editing mode, and a save of a positive value sets monthlyBudget to that
\* value and leaves the editing mode whether or not the backend stored it.
\* ------------------------------------------------------------------------
\* the save whose request settles in this step
SettlingSaves == {save \in budgetSaves : save \notin budgetSaves'}

C30_BudgetStaysPositive ==
  /\ [](monthlyBudget.kind = "finite" /\ monthlyBudget.val > 0)
  /\ [](\A save \in budgetSaves : save.value.kind = "finite" /\ save.value.val > 0)
  /\ [][/\ HandleBudgetSave
             => /\ UNCHANGED <<monthlyBudget, isEditingBudget>>
                /\ IF parseFloat(newBudget).kind = "finite" /\ parseFloat(newBudget).val > 0
                   THEN \E save \in budgetSaves' : save.value = parseFloat(newBudget)
                   ELSE UNCHANGED budgetSaves
        /\ (\E save \in budgetSaves : UpdateBudgetOk(save) \/ UpdateBudgetFail(save))
             => \E save \in SettlingSaves :
                  /\ monthlyBudget' = save.value
                  /\ save.live => ~isEditingBudget']_vars

\* half a rupee was saved although the backend did not store it
C30_Witness ==
  /\ monthlyBudget = Fin(5)
  /\ savedBudget = Some(<<"0", ".", "5">>)
  /\ budgetDb = None
  /\ ~isEditingBudget
  /\ budgetSaves = {}

\* ------------------------------------------------------------------------
\* C29. deleteInsight removes from the displayed list exactly the insight
\* with the given id, and only once the backend has deleted it; when the
\* call fails the list is unchanged and error is set. generateInsight adds
\* exactly one insight at the front on success and leaves the list unchanged
\* on failure, and isGenerating is false after either.
\* ------------------------------------------------------------------------
InsightIds(list) == {list[k].id : k \in 1..Len(list)}

\* the request of the displayed Insights that settles in this step
LiveSettling(i, op) ==
  /\ i \in 1..Len(insightRequests)
  /\ insightRequests[i].op = op
  /\ insightRequests[i].live
  /\ insightRequests' = WithoutRequest(i)

C29_InsightListFollowsBackend ==
  [][\A i \in 1..MaxRequests :
       /\ (LiveSettling(i, "delete") /\ DeleteInsightOk(i))
            => /\ InsightIds(insights') = InsightIds(insights) \ {insightRequests[i].arg}
               /\ Len(insights') = Cardinality(InsightIds(insights'))
               /\ \A k \in 1..Len(insights') :
                    \E j \in k..Len(insights) : insights'[k] = insights[j]
               /\ insightRequests[i].arg \notin InsightIds(insightsDb'.insights)
       /\ (LiveSettling(i, "delete") /\ DeleteInsightFail(i))
            => /\ insights' = insights
               /\ IsSome(insightsError')
       /\ (\E insightId \in 1..MaxInsights : DeleteInsight(insightId))
            => insights' = insights
       /\ (LiveSettling(i, "generate") /\ GenerateInsightOk(i))
            => /\ Len(insights') = Len(insights) + 1
               /\ Tail(insights') = insights
               /\ Head(insights').query = insightRequests[i].arg
               /\ ~isGenerating'
       /\ (LiveSettling(i, "generate") /\ GenerateInsightFail(i))
            => /\ insights' = insights
               /\ ~isGenerating']_vars

\* the older of two displayed insights was deleted: the newer one is left and
\* the backend no longer has the deleted one
C29_Witness ==
  /\ Len(insights) = 1
  /\ insights[1].id = 2
  /\ InsightIds(insightsDb.insights) = {2}
  /\ insightsDb.issued = 2
  /\ insightRequests = <<>>
  /\ insightsError = None
  /\ ~isGenerating
====
